---- MODULE Spec2Model ----
(***************************************************************************)
(* A model of the cJSON Rust port (src/src/cJSON.rs): the node arena and   *)
(* the Mutation API, the recursive-descent parser with its last-error      *)
(* slot, and the two printers.                                             *)
(*                                                                         *)
(* Text is a sequence of byte values 0..255.  A node handle                *)
(* (Rc<RefCell<CJSON>>) is an index into the sequence `heap`; 0 is None.   *)
(* An Option<String> is a byte sequence, or NoneStr for None.              *)
(***************************************************************************)
EXTENDS Integers, Sequences, FiniteSets, TLC

VARIABLES
    heap,      \* the CJSON nodes allocated so far
    err,       \* GLOBAL_ERROR: [json, position]
    ps,        \* the parser's position while a parse call is running
    call,      \* the last API call and what it returned
    live,      \* the handles the caller holds
    crashed    \* TRUE once a call has panicked (the thread has unwound)

vars == <<heap, err, ps, call, live, crashed>>

(***************************** bytes ***************************************)
CH_NUL == 0
CH_BS == 8
CH_TAB == 9
CH_LF == 10
CH_FF == 12
CH_CR == 13
CH_SPACE == 32
CH_QUOTE == 34
CH_PLUS == 43
CH_COMMA == 44
CH_MINUS == 45
CH_DOT == 46
CH_SLASH == 47
CH_0 == 48
CH_9 == 57
CH_COLON == 58
CH_UPPER_A == 65
CH_UPPER_E == 69
CH_UPPER_F == 70
CH_LBRACKET == 91
CH_BACKSLASH == 92
CH_RBRACKET == 93
CH_a == 97
CH_b == 98
CH_e == 101
CH_f == 102
CH_n == 110
CH_r == 114
CH_t == 116
CH_u == 117
CH_LBRACE == 123
CH_RBRACE == 125

STR_null == <<110, 117, 108, 108>>
STR_true == <<116, 114, 117, 101>>
STR_false == <<102, 97, 108, 115, 101>>
STR_inf == <<105, 110, 102>>
STR_NaN == <<78, 97, 78>>

NoneStr == <<-1>>

Max(a, b) == IF a >= b THEN a ELSE b
Min(a, b) == IF a <= b THEN a ELSE b

\* s[from..] of a Rust slice, with 0-based `from` (from <= Len(s))
SliceFrom(s, from) == SubSeq(s, from + 1, Len(s))

\* <[u8]>::starts_with
StartsWith(s, p) == Len(s) >= Len(p) /\ SubSeq(s, 1, Len(p)) = p

\* PartialOrd on byte slices: lexicographic, a proper prefix is smaller
RECURSIVE SliceLess(_, _)
SliceLess(a, b) ==
    IF b = <<>> THEN FALSE
    ELSE IF a = <<>> THEN TRUE
    ELSE IF a[1] < b[1] THEN TRUE
    ELSE IF a[1] > b[1] THEN FALSE
    ELSE SliceLess(Tail(a), Tail(b))

\* u8::is_ascii_whitespace: space, tab, line feed, form feed, carriage return
IsAsciiWhitespace(c) == c \in {CH_SPACE, CH_TAB, CH_LF, CH_FF, CH_CR}

IsDigit(c) == c >= CH_0 /\ c <= CH_9

(***************************** numbers *************************************)
(* An f64 is modelled on the decimal values it represents exactly enough   *)
(* for decimal -> f64 -> shortest decimal to be the identity (up to 15     *)
(* significant digits, decimal exponent within +-307):                     *)
(* (-1)^neg * ds * 10^e, ds a digit string without leading or trailing     *)
(* zeros (<<CH_0>> for zero), or an infinity, or NaN.                      *)
(***************************************************************************)
RECURSIVE StripLeadingZeros(_)
StripLeadingZeros(ds) ==
    IF ds # <<>> /\ Head(ds) = CH_0 THEN StripLeadingZeros(Tail(ds)) ELSE ds

RECURSIVE NormDigits(_, _)
NormDigits(ds, e) ==
    IF ds = <<>> THEN [ds |-> <<CH_0>>, e |-> 0]
    ELSE IF ds[Len(ds)] = CH_0 THEN NormDigits(SubSeq(ds, 1, Len(ds) - 1), e + 1)
    ELSE [ds |-> ds, e |-> e]

NumInf(neg) == [cls |-> "inf", neg |-> neg, ds |-> <<CH_0>>, e |-> 0]
NumNaN == [cls |-> "nan", neg |-> FALSE, ds |-> <<CH_0>>, e |-> 0]

F64_MAX_DIGITS == <<49, 55, 57, 55, 54, 57, 51, 49, 51, 52, 56, 54, 50, 51, 49, 53, 56>>

\* the f64 nearest to (-1)^neg * ds * 10^e: overflow to an infinity, underflow to zero
NumFin(neg, digits, exp) ==
    LET Zero == [cls |-> "fin", neg |-> neg, ds |-> <<CH_0>>, e |-> 0]
        Of(n, adj) ==
            IF n.ds = <<CH_0>> THEN Zero
            ELSE IF adj > 308 \/ (adj = 308 /\ ~SliceLess(n.ds, F64_MAX_DIGITS))
            THEN NumInf(neg)
            ELSE IF adj < -324 THEN Zero
            ELSE [cls |-> "fin", neg |-> neg, ds |-> n.ds, e |-> n.e]
        Norm(n) == Of(n, n.e + Len(n.ds) - 1)
    IN Norm(NormDigits(StripLeadingZeros(digits), exp))

RECURSIVE DigitsOf(_)
DigitsOf(m) == IF m < 10 THEN <<CH_0 + m>> ELSE Append(DigitsOf(m \div 10), CH_0 + (m % 10))

RECURSIVE ValueOfDigits(_)
ValueOfDigits(ds) ==
    IF ds = <<>> THEN 0 ELSE 10 * ValueOfDigits(SubSeq(ds, 1, Len(ds) - 1)) + (ds[Len(ds)] - CH_0)

NumInt(i) == IF i < 0 THEN NumFin(TRUE, DigitsOf(-i), 0) ELSE NumFin(FALSE, DigitsOf(i), 0)
NumZero == [cls |-> "fin", neg |-> FALSE, ds |-> <<CH_0>>, e |-> 0]

Zeros(k) == [i \in 1..k |-> CH_0]

I32_MAX == 2147483647
I32_MIN == -I32_MAX - 1
I32_MAX_DIGITS == <<50, 49, 52, 55, 52, 56, 51, 54, 52, 55>>

\* `num as i32`: truncation toward zero, saturating, NaN to 0
AsI32(d) ==
    LET Of(int) ==
            IF Len(int) > 10 \/ (Len(int) = 10 /\ ~SliceLess(int, I32_MAX_DIGITS))
            THEN (IF d.neg THEN (IF int = I32_MAX_DIGITS THEN -I32_MAX ELSE I32_MIN)
                  ELSE I32_MAX)
            ELSE IF d.neg THEN -ValueOfDigits(int) ELSE ValueOfDigits(int)
    IN IF d.cls = "nan" THEN 0
       ELSE IF d.cls = "inf" THEN (IF d.neg THEN I32_MIN ELSE I32_MAX)
       ELSE Of(IF d.e > 10 THEN d.ds \o Zeros(10)
               ELSE IF d.e >= 0 THEN d.ds \o Zeros(d.e)
               ELSE SubSeq(d.ds, 1, Len(d.ds) + d.e))

\* format!("{}", f64): never an exponent; "inf", "-inf", "NaN"
FormatF64(d) ==
    IF d.cls = "nan" THEN STR_NaN
    ELSE LET sign == IF d.neg THEN <<CH_MINUS>> ELSE <<>>
             ds == d.ds
         IN IF d.cls = "inf" THEN sign \o STR_inf
            ELSE IF d.e >= 0 THEN sign \o ds \o Zeros(d.e)
            ELSE IF Len(ds) > -d.e
                 THEN sign \o SubSeq(ds, 1, Len(ds) + d.e) \o <<CH_DOT>>
                           \o SubSeq(ds, Len(ds) + d.e + 1, Len(ds))
                 ELSE sign \o <<CH_0, CH_DOT>> \o Zeros(-d.e - Len(ds)) \o ds

(* f64::from_str on a string over 0-9 + - e E . :                          *)
(*   [sign] digits ['.' digits] [('e'|'E') [sign] digits], at least one    *)
(*   mantissa digit, at least one exponent digit after an 'e'.             *)

RECURSIVE TakeDigits(_)
TakeDigits(s) == IF s # <<>> /\ IsDigit(Head(s)) THEN <<Head(s)>> \o TakeDigits(Tail(s)) ELSE <<>>

RECURSIVE SaturatedValue(_, _)
SaturatedValue(ds, acc) ==
    IF ds = <<>> THEN acc
    ELSE SaturatedValue(Tail(ds), Min(10000, 10 * acc + (Head(ds) - CH_0)))

\* the stages read the string left to right; each hands what it has read
\* and the rest of the string to the next
F64FromStr(s) ==
    LET Err == [ok |-> FALSE, val |-> NumNaN]
        Finish(neg, digits, scale, exp, rest) ==
            IF rest # <<>> THEN Err
            ELSE [ok |-> TRUE, val |-> NumFin(neg, digits, exp - scale)]
        ExpDigits(neg, digits, scale, expNeg, xp, s5) ==
            IF xp = <<>> THEN Err
            ELSE Finish(neg, digits, scale,
                        IF expNeg THEN -SaturatedValue(xp, 0)
                        ELSE SaturatedValue(xp, 0),
                        SliceFrom(s5, Len(xp)))
        ExpSign(neg, digits, scale, expNeg, s5) ==
            ExpDigits(neg, digits, scale, expNeg, TakeDigits(s5), s5)
        Exponent(neg, digits, scale, s3) ==
            IF s3 # <<>> /\ Head(s3) \in {CH_e, CH_UPPER_E}
            THEN ExpSign(neg, digits, scale, Len(s3) > 1 /\ s3[2] = CH_MINUS,
                         IF Len(s3) > 1 /\ s3[2] \in {CH_PLUS, CH_MINUS}
                         THEN SliceFrom(s3, 2) ELSE Tail(s3))
            ELSE Finish(neg, digits, scale, 0, s3)
        Mantissa(neg, ip, fp, s3) ==
            IF Len(ip) + Len(fp) = 0 THEN Err
            ELSE Exponent(neg, ip \o fp, Len(fp), s3)
        FracDigits(neg, ip, dot, fp, s2) ==
            Mantissa(neg, ip, fp, IF dot THEN SliceFrom(s2, 1 + Len(fp)) ELSE s2)
        Fraction(neg, ip, s2) ==
            FracDigits(neg, ip, s2 # <<>> /\ Head(s2) = CH_DOT,
                       IF s2 # <<>> /\ Head(s2) = CH_DOT THEN TakeDigits(Tail(s2))
                       ELSE <<>>,
                       s2)
        IntDigits(neg, ip, s1) == Fraction(neg, ip, SliceFrom(s1, Len(ip)))
        Unsigned(neg, s1) == IntDigits(neg, TakeDigits(s1), s1)
    IN Unsigned(s # <<>> /\ Head(s) = CH_MINUS,
                IF s # <<>> /\ Head(s) \in {CH_PLUS, CH_MINUS} THEN Tail(s) ELSE s)

(***************************** nodes ***************************************)
CJSON_INVALID == 0
CJSON_FALSE == 1
CJSON_TRUE == 2
CJSON_NULL == 4
CJSON_NUMBER == 8
CJSON_STRING == 16
CJSON_ARRAY == 32
CJSON_OBJECT == 64
CJSON_RAW == 128
CJSON_IS_REFERENCE == 256
CJSON_STRING_IS_CONST == 512
CJSON_NESTING_LIMIT == 1000

\* item_type & 0xFF
TypeBits(t) == t % 256
\* (item_type & CJSON_IS_REFERENCE) != 0
IsReference(t) == (t \div CJSON_IS_REFERENCE) % 2 = 1
\* (item_type & CJSON_STRING_IS_CONST) != 0
IsConstKey(t) == (t \div CJSON_STRING_IS_CONST) % 2 = 1
SetConstKey(t) == IF IsConstKey(t) THEN t ELSE t + CJSON_STRING_IS_CONST
ClearConstKey(t) == IF IsConstKey(t) THEN t - CJSON_STRING_IS_CONST ELSE t

cJSON_New_Item ==
    [next |-> 0, prev |-> 0, child |-> 0, item_type |-> CJSON_NULL,
     valuestring |-> NoneStr, valueint |-> 0, valuedouble |-> NumZero,
     string |-> NoneStr]

\* Allocation: the new node's handle is the next index of the arena.
NewId(h) == Len(h) + 1
Alloc(h, node) == Append(h, node)

cjson_create_null == cJSON_New_Item
cjson_create_true == [cJSON_New_Item EXCEPT !.item_type = CJSON_TRUE]
cjson_create_false == [cJSON_New_Item EXCEPT !.item_type = CJSON_FALSE]
cjson_create_bool(b) ==
    [cJSON_New_Item EXCEPT !.item_type = IF b THEN CJSON_TRUE ELSE CJSON_FALSE]
cjson_create_number(num) ==
    [cJSON_New_Item EXCEPT !.item_type = CJSON_NUMBER,
                           !.valuedouble = num,
                           !.valueint = AsI32(num)]
cjson_create_string(s) ==
    [cJSON_New_Item EXCEPT !.item_type = CJSON_STRING, !.valuestring = s]
cjson_create_raw(raw) ==
    [cJSON_New_Item EXCEPT !.item_type = CJSON_RAW, !.valuestring = raw]
cjson_create_array == [cJSON_New_Item EXCEPT !.item_type = CJSON_ARRAY]
cjson_create_object == [cJSON_New_Item EXCEPT !.item_type = CJSON_OBJECT]
cjson_create_string_reference(s) ==
    [cJSON_New_Item EXCEPT !.item_type = CJSON_STRING + CJSON_IS_REFERENCE,
                           !.valuestring = s]
cjson_create_object_reference(child) ==
    [cJSON_New_Item EXCEPT !.item_type = CJSON_OBJECT + CJSON_IS_REFERENCE,
                           !.child = child]
cjson_create_array_reference(child) ==
    [cJSON_New_Item EXCEPT !.item_type = CJSON_ARRAY + CJSON_IS_REFERENCE,
                           !.child = child]

(***************************** Mutation API *******************************)
(* Every operation returns [heap, ret, out]: the arena afterwards, the     *)
(* returned value, and out = "ok", "panic" (a RefCell borrow conflict: the *)
(* node is already mutably borrowed) or "diverge" (the loop never ends).   *)
(***************************************************************************)
OpResult(h, ret, out) == [heap |-> h, ret |-> ret, out |-> out]

cjson_get_array_size_from(h, first) ==
    LET RECURSIVE Walk(_, _, _)
        Walk(c, seen, size) ==
            IF c = 0 THEN [ret |-> size, out |-> "ok"]
            ELSE IF c \in seen THEN [ret |-> size, out |-> "diverge"]
            ELSE Walk(h[c].next, seen \cup {c}, size + 1)
    IN Walk(first, {}, 0)

cjson_get_array_size(h, array) == cjson_get_array_size_from(h, h[array].child)

add_item_to_array(h, array, item) ==
    IF array = item \/ h[array].item_type # CJSON_ARRAY
    THEN OpResult(h, FALSE, "ok")
    ELSE LET child == h[array].child IN
         IF child = 0
         THEN \* List is empty, start a new one
              LET h1 == [h EXCEPT ![array].child = item]
                  h2 == [h1 EXCEPT ![item].prev = item]
                  h3 == [h2 EXCEPT ![item].next = 0]
              IN OpResult(h3, TRUE, "ok")
         ELSE IF child = array
         THEN OpResult(h, FALSE, "panic")      \* child.borrow() of the borrowed array
         ELSE LET last == h[child].prev IN
              IF last = 0 THEN OpResult(h, TRUE, "ok")
              ELSE IF last = array
              THEN OpResult(h, FALSE, "panic") \* last_item.borrow_mut()
              ELSE LET h1 == [h EXCEPT ![last].next = item]
                       h2 == [h1 EXCEPT ![item].prev = last]
                       h3 == [h2 EXCEPT ![child].prev = item]
                   IN OpResult(h3, TRUE, "ok")

cjson_add_item_to_array(h, array, item) == add_item_to_array(h, array, item)

\* the `loop` of add_item_to_object: follow next from the first child to the
\* node whose next is None; `object` is mutably borrowed meanwhile
ObjectLastChild(h, object) ==
    LET RECURSIVE Walk(_, _)
        Walk(last, seen) ==
            IF last = object THEN [last |-> last, out |-> "panic"]
            ELSE IF last \in seen THEN [last |-> last, out |-> "diverge"]
            ELSE IF h[last].next # 0 THEN Walk(h[last].next, seen \cup {last})
            ELSE [last |-> last, out |-> "ok"]
    IN Walk(h[object].child, {})

add_item_to_object(h, object, key, item, constant_key) ==
    IF object = item \/ key = <<>> \/ h[object].item_type # CJSON_OBJECT
    THEN OpResult(h, FALSE, "ok")
    ELSE LET new_type == IF constant_key THEN SetConstKey(h[item].item_type)
                         ELSE ClearConstKey(h[item].item_type)
             h1 == [h EXCEPT ![item].string = key, ![item].item_type = new_type]
         IN IF h1[object].child = 0
            THEN OpResult([h1 EXCEPT ![object].child = item], TRUE, "ok")
            ELSE LET w == ObjectLastChild(h1, object) IN
                 IF w.out # "ok" THEN OpResult(h1, FALSE, w.out)
                 ELSE LET h2 == [h1 EXCEPT ![w.last].next = item]
                          h3 == [h2 EXCEPT ![item].prev = w.last]
                      IN OpResult(h3, TRUE, "ok")

cjson_add_item_to_object(h, object, key, item) ==
    add_item_to_object(h, object, key, item, FALSE)

(***************************** cjson_delete ********************************)
(* `held` are the nodes whose RefMut is alive (the callers up the          *)
(* recursion), `seen` the nodes this loop has already passed.              *)
(***************************************************************************)
\* cjson_delete without its two CJSON_IS_REFERENCE tests: a reference node
\* is released like an owning one
RECURSIVE DeleteChainOwning(_, _, _, _)
DeleteChainOwning(h, current, seen, held) ==
    IF current = 0 THEN OpResult(h, TRUE, "ok")
    ELSE IF current \in held THEN OpResult(h, FALSE, "panic")
    ELSE IF current \in seen THEN OpResult(h, FALSE, "diverge")
    ELSE LET node == h[current]
             next == node.next
             sub == IF node.child # 0
                    THEN DeleteChainOwning([h EXCEPT ![current].child = 0],
                                           node.child, {}, held \cup {current})
                    ELSE OpResult(h, TRUE, "ok")
         IN IF sub.out # "ok" THEN sub
            ELSE LET h1 == [sub.heap EXCEPT ![current].valuestring = NoneStr]
                     h2 == IF ~IsConstKey(node.item_type)
                           THEN [h1 EXCEPT ![current].string = NoneStr]
                           ELSE h1
                 IN DeleteChainOwning(h2, next, seen \cup {current}, held)

RECURSIVE DeleteChain(_, _, _, _)
DeleteChain(h, current, seen, held) ==
    IF current = 0 THEN OpResult(h, TRUE, "ok")
    ELSE IF current \in held THEN OpResult(h, FALSE, "panic")
    ELSE IF current \in seen THEN OpResult(h, FALSE, "diverge")
    ELSE LET node == h[current]
             next == node.next
             sub == IF ~IsReference(node.item_type) /\ node.child # 0
                    THEN DeleteChain([h EXCEPT ![current].child = 0], node.child,
                                     {}, held \cup {current})
                    ELSE OpResult(h, TRUE, "ok")
         IN IF sub.out # "ok" THEN sub
            ELSE LET h1 == IF ~IsReference(node.item_type)
                           THEN [sub.heap EXCEPT ![current].valuestring = NoneStr]
                           ELSE sub.heap
                     h2 == IF ~IsConstKey(node.item_type)
                           THEN [h1 EXCEPT ![current].string = NoneStr]
                           ELSE h1
                 IN DeleteChain(h2, next, seen \cup {current}, held)

cjson_delete(h, item) == DeleteChain(h, item, {}, {})

\* cjson_add_true_to_object and its siblings: ret is the new handle, or 0
AddNewToObject(h, object, name, node) ==
    LET Deleted(d) == OpResult(d.heap, 0, d.out)
        Added(item, r) ==
            IF r.out # "ok" THEN r
            ELSE IF r.ret THEN OpResult(r.heap, item, "ok")
            ELSE Deleted(cjson_delete(r.heap, item))
    IN Added(NewId(h),
             add_item_to_object(Alloc(h, node), object, name, NewId(h), FALSE))

cjson_add_true_to_object(h, object, name) ==
    AddNewToObject(h, object, name, cjson_create_true)
cjson_add_false_to_object(h, object, name) ==
    AddNewToObject(h, object, name, cjson_create_false)
cjson_add_number_to_object(h, object, name, number) ==
    AddNewToObject(h, object, name, cjson_create_number(number))
cjson_add_string_to_object(h, object, name, string) ==
    AddNewToObject(h, object, name, cjson_create_string(string))

(***************************** cjson_print *********************************)
(* The growable printer.  [out, text] with out = "some", "none" or         *)
(* "diverge" (the recursion re-enters a node it is printing, or a sibling  *)
(* loop comes back to a node it has passed: it never returns).             *)
(***************************************************************************)
PrintSome(text) == [out |-> "some", text |-> text]
PrintNone == [out |-> "none", text |-> <<>>]
PrintDiverge == [out |-> "diverge", text |-> <<>>]

SEP_COMMA == <<CH_COMMA, CH_SPACE>>
SEP_COLON == <<CH_COLON, CH_SPACE>>

StrOrEmpty(s) == IF s = NoneStr THEN <<>> ELSE s

RECURSIVE PrintItem(_, _, _)
RECURSIVE PrintArrayLoop(_, _, _, _, _)
RECURSIVE PrintObjectLoop(_, _, _, _, _, _)

PrintItem(h, item, anc) ==
    IF item \in anc THEN PrintDiverge
    ELSE LET node == h[item] t == node.item_type IN
         IF t = CJSON_NULL THEN PrintSome(STR_null)
         ELSE IF t = CJSON_TRUE THEN PrintSome(STR_true)
         ELSE IF t = CJSON_FALSE THEN PrintSome(STR_false)
         ELSE IF t = CJSON_NUMBER THEN PrintSome(FormatF64(node.valuedouble))
         ELSE IF t = CJSON_STRING
              THEN PrintSome(<<CH_QUOTE>> \o StrOrEmpty(node.valuestring) \o <<CH_QUOTE>>)
         ELSE IF t = CJSON_ARRAY
              THEN PrintArrayLoop(h, node.child, {}, anc \cup {item}, <<CH_LBRACKET>>)
         ELSE IF t = CJSON_OBJECT
              THEN PrintObjectLoop(h, node.child, {}, anc \cup {item}, <<CH_LBRACE>>, TRUE)
         ELSE PrintNone

PrintArrayLoop(h, child, seen, anc, result) ==
    IF child = 0 THEN PrintSome(Append(result, CH_RBRACKET))
    ELSE IF child \in seen THEN PrintDiverge
    ELSE LET rendered == PrintItem(h, child, anc) IN
         IF rendered.out # "some" THEN rendered
         ELSE LET next == h[child].next
                  r1 == result \o rendered.text
                  r2 == IF next # 0 THEN r1 \o SEP_COMMA ELSE r1
              IN PrintArrayLoop(h, next, seen \cup {child}, anc, r2)

PrintObjectLoop(h, child, seen, anc, result, first) ==
    IF child = 0 THEN PrintSome(Append(result, CH_RBRACE))
    ELSE IF child \in seen THEN PrintDiverge
    ELSE LET key == h[child].string
             next == h[child].next
         IN IF key = NoneStr
            THEN PrintObjectLoop(h, next, seen \cup {child}, anc, result, first)
            ELSE LET rendered == PrintItem(h, child, anc) IN
                 IF rendered.out = "diverge" THEN rendered
                 ELSE IF rendered.out = "none"
                 THEN PrintObjectLoop(h, next, seen \cup {child}, anc, result, first)
                 ELSE LET r1 == IF first THEN result ELSE result \o SEP_COMMA
                          r2 == r1 \o <<CH_QUOTE>> \o key \o <<CH_QUOTE>> \o SEP_COLON
                                   \o rendered.text
                      IN PrintObjectLoop(h, next, seen \cup {child}, anc, r2, FALSE)

cjson_print(h, item) == PrintItem(h, item, {})

(***************************** cjson_print_preallocated ********************)
(* A String is [chars, cap].  A PrintBuffer is [buffer, length, offset].   *)
(***************************************************************************)
\* String::reserve(additional): amortized growth of the backing Vec<u8>
\* (doubling, at least the request, at least 8 bytes)
StringReserve(b, additional) ==
    IF b.cap - Len(b.chars) >= additional THEN b
    ELSE [b EXCEPT !.cap = Max(8,
                               Max(2 * b.cap, Len(b.chars) + additional))]

\* String::push_str / String::push
StringPush(b, s) == [StringReserve(b, Len(s)) EXCEPT !.chars = b.chars \o s]

PushStr(p, s) == [p EXCEPT !.buffer = StringPush(p.buffer, s)]

\* always true; reserves when the capacity is below offset + required
ensure_capacity(p, required) ==
    LET current_capacity == p.buffer.cap
        needed_capacity == p.offset + required
    IN [ret |-> TRUE,
        p |-> IF current_capacity < needed_capacity
              THEN [p EXCEPT !.buffer =
                        StringReserve(p.buffer, needed_capacity - current_capacity)]
              ELSE p]

\* ensure_capacity(required) and, when it allows, push_str(s)
EnsureAndPush(p, required, s) ==
    LET Ensured(e) ==
            IF e.ret THEN [ret |-> TRUE, p |-> PushStr(e.p, s), out |-> "ok"]
            ELSE [ret |-> FALSE, p |-> e.p, out |-> "ok"]
    IN Ensured(ensure_capacity(p, required))

\* the loop over input.chars(); char::is_control is U+0000..U+001F and
\* U+007F..U+009F (the latter is the two bytes C2 80 .. C2 9F)
RECURSIVE EscapeChars(_)
EscapeChars(input) ==
    IF input = <<>> THEN <<>>
    ELSE IF Len(input) >= 2 /\ input[1] = 194 /\ input[2] >= 128 /\ input[2] <= 159
    THEN LET hex(d) == IF d < 10 THEN CH_0 + d ELSE CH_a + (d - 10)
         IN <<CH_BACKSLASH, CH_u, CH_0, CH_0, hex(input[2] \div 16), hex(input[2] % 16)>>
            \o EscapeChars(SubSeq(input, 3, Len(input)))
    ELSE LET c == Head(input)
             hex(d) == IF d < 10 THEN CH_0 + d ELSE CH_a + (d - 10)
             one == IF c = CH_QUOTE THEN <<CH_BACKSLASH, CH_QUOTE>>
                    ELSE IF c = CH_BACKSLASH THEN <<CH_BACKSLASH, CH_BACKSLASH>>
                    ELSE IF c = CH_LF THEN <<CH_BACKSLASH, CH_n>>
                    ELSE IF c = CH_CR THEN <<CH_BACKSLASH, CH_r>>
                    ELSE IF c = CH_TAB THEN <<CH_BACKSLASH, CH_t>>
                    ELSE IF c < CH_SPACE \/ c = 127
                    THEN <<CH_BACKSLASH, CH_u, CH_0, CH_0, hex(c \div 16), hex(c % 16)>>
                    ELSE <<c>>
         IN one \o EscapeChars(Tail(input))

print_string_ptr(input, p) ==
    LET Escaped(escaped_string) ==
            EnsureAndPush(p, Len(escaped_string), escaped_string)
    IN Escaped(<<CH_QUOTE>> \o EscapeChars(input) \o <<CH_QUOTE>>)

RECURSIVE print_value(_, _, _, _)
RECURSIVE PrintArrayElems(_, _, _, _, _, _)
RECURSIVE PrintObjectElems(_, _, _, _, _, _)

print_array(h, item, p, anc) ==
    LET Opened(open) ==
            IF ~open.ret THEN open
            ELSE PrintArrayElems(h, h[item].child, {}, anc \cup {item}, open.p, TRUE)
    IN Opened(EnsureAndPush(p, 1, <<CH_LBRACKET>>))

PrintArrayElems(h, child, seen, anc, p, first) ==
    LET Printed(v) ==
            IF v.out # "ok" \/ ~v.ret THEN v
            ELSE PrintArrayElems(h, h[child].next, seen \cup {child}, anc, v.p, FALSE)
        Separated(sep) ==
            IF ~sep.ret THEN sep
            ELSE Printed(print_value(h, child, sep.p, anc))
    IN IF child = 0 THEN EnsureAndPush(p, 1, <<CH_RBRACKET>>)
       ELSE IF child \in seen THEN [ret |-> FALSE, p |-> p, out |-> "diverge"]
       ELSE Separated(IF first THEN [ret |-> TRUE, p |-> p, out |-> "ok"]
                      ELSE EnsureAndPush(p, 2, SEP_COMMA))

print_object(h, item, p, anc) ==
    LET Opened(open) ==
            IF ~open.ret THEN open
            ELSE PrintObjectElems(h, h[item].child, {}, anc \cup {item}, open.p, TRUE)
    IN Opened(EnsureAndPush(p, 1, <<CH_LBRACE>>))

PrintObjectElems(h, child, seen, anc, p, first) ==
    LET Printed(v) ==
            IF v.out # "ok" \/ ~v.ret THEN v
            ELSE PrintObjectElems(h, h[child].next, seen \cup {child}, anc, v.p, FALSE)
        Colon(c) ==
            IF ~c.ret THEN c
            ELSE Printed(print_value(h, child, c.p, anc))
        Keyed(k) ==
            IF ~k.ret THEN k
            ELSE Colon(EnsureAndPush(k.p, 2, SEP_COLON))
        Separated(sep) ==
            IF ~sep.ret THEN sep
            ELSE Keyed(print_string_ptr(h[child].string, sep.p))
    IN IF child = 0 THEN EnsureAndPush(p, 1, <<CH_RBRACE>>)
       ELSE IF child \in seen THEN [ret |-> FALSE, p |-> p, out |-> "diverge"]
       ELSE IF h[child].string = NoneStr
       THEN PrintObjectElems(h, h[child].next, seen \cup {child}, anc, p, first)
       ELSE Separated(IF first THEN [ret |-> TRUE, p |-> p, out |-> "ok"]
                      ELSE EnsureAndPush(p, 2, SEP_COMMA))

print_value(h, item, p, anc) ==
    LET node == h[item]
        t == TypeBits(h[item].item_type)
        Number(formatted_number) ==
            EnsureAndPush(p, Len(formatted_number), formatted_number)
        String(e) ==
            [ret |-> TRUE,
             p |-> PushStr(PushStr(PushStr(e.p, <<CH_QUOTE>>), node.valuestring),
                           <<CH_QUOTE>>),
             out |-> "ok"]
    IN IF item \in anc THEN [ret |-> FALSE, p |-> p, out |-> "diverge"]
       ELSE IF t = CJSON_NULL THEN EnsureAndPush(p, 5, STR_null)
       ELSE IF t = CJSON_FALSE THEN EnsureAndPush(p, 6, STR_false)
       ELSE IF t = CJSON_TRUE THEN EnsureAndPush(p, 5, STR_true)
       ELSE IF t = CJSON_NUMBER THEN Number(FormatF64(node.valuedouble))
       ELSE IF t = CJSON_STRING
       THEN IF node.valuestring = NoneStr
            THEN [ret |-> FALSE, p |-> p, out |-> "ok"]
            ELSE String(ensure_capacity(p, Len(node.valuestring) + 2))
       ELSE IF t = CJSON_ARRAY THEN print_array(h, item, p, anc)
       ELSE IF t = CJSON_OBJECT THEN print_object(h, item, p, anc)
       ELSE [ret |-> FALSE, p |-> p, out |-> "ok"]

\* [ret, buffer, out]: the returned bool and the caller's String afterwards
cjson_print_preallocated(h, item, buffer, length) ==
    LET Printed(r) ==
            [ret |-> r.ret /\ r.out = "ok", buffer |-> r.p.buffer, out |-> r.out]
    IN IF length = 0 \/ buffer.cap < length
       THEN [ret |-> FALSE, buffer |-> buffer, out |-> "ok"]
       ELSE Printed(print_value(h, item,
                        [buffer |-> buffer, length |-> length, offset |-> 0], {}))

(***************************** parser: tokenizers **************************)
(* The parser state `p` holds the ParseBuffer (content, length, offset,    *)
(* depth), the arena, and the position of the recursive descent: the stack *)
(* of containers being parsed, the node parse_value is to fill (cur), and  *)
(* pc = "value" (parse_value is about to run), "ret" (it has returned ok), *)
(* "done".  out = "panic" records an index out of range, a slice out of    *)
(* range or an arithmetic overflow.                                        *)
(***************************************************************************)
cannot_access_at_index(p, index) == p.offset + index >= Len(p.content)
can_access_at_index(p, index) == p.offset + index < Len(p.content)
can_read(p, length) == p.offset + length <= Len(p.content)
buffer_at_offset(p) == SliceFrom(p.content, p.offset)
\* &content[offset..] panics when offset > content.len()
SliceInRange(p) == p.offset <= Len(p.content)

Panic(p) == [p EXCEPT !.out = "panic", !.pc = "done"]

RECURSIVE skip_whitespace(_)
skip_whitespace(p) ==
    IF p.offset < p.length
    THEN IF p.offset >= Len(p.content) THEN Panic(p)      \* content[offset]
         ELSE IF IsAsciiWhitespace(p.content[p.offset + 1])
              THEN skip_whitespace([p EXCEPT !.offset = p.offset + 1])
              ELSE p
    ELSE p

\* the first byte at the offset, or -1 when there is none
FirstByte(p) == IF can_access_at_index(p, 0) THEN p.content[p.offset + 1] ELSE -1

IsNumberChar(c) == IsDigit(c) \/ c \in {CH_PLUS, CH_MINUS, CH_e, CH_UPPER_E, CH_DOT}

\* the scratch copy of parse_number: at most 63 permitted characters
RECURSIVE NumberScratch(_, _)
NumberScratch(at, i) ==
    IF i < 63 /\ i < Len(at) /\ IsNumberChar(at[i + 1])
    THEN <<at[i + 1]>> \o NumberScratch(at, i + 1)
    ELSE <<>>

\* [ok, node, offset]
parse_number(node, p) ==
    LET Fail == [ok |-> FALSE, node |-> node, offset |-> p.offset]
        Converted(number_c_string, parsed) ==
            IF ~parsed.ok THEN Fail
            ELSE [ok |-> TRUE,
                  node |-> [node EXCEPT !.valuedouble = parsed.val,
                                        !.valueint = AsI32(parsed.val),
                                        !.item_type = CJSON_NUMBER],
                  offset |-> p.offset + Len(number_c_string)]
        Copied(number_c_string) ==
            Converted(number_c_string, F64FromStr(number_c_string))
    IN IF p.content = <<>> THEN Fail
       ELSE Copied(NumberScratch(buffer_at_offset(p), 0))

HexDigit(c) ==
    IF IsDigit(c) THEN c - CH_0
    ELSE IF c >= CH_UPPER_A /\ c <= CH_UPPER_F THEN c - CH_UPPER_A + 10
    ELSE IF c >= CH_a /\ c <= CH_f THEN c - CH_a + 10
    ELSE -1

\* Some(h) as h >= 0, None as -1
parse_hex4(input) ==
    IF Len(input) < 4 THEN -1
    ELSE IF \E i \in 1..4 : HexDigit(input[i]) < 0 THEN -1
    ELSE ((HexDigit(input[1]) * 16 + HexDigit(input[2])) * 16 + HexDigit(input[3])) * 16
         + HexDigit(input[4])

\* the UTF-8 bytes of a code point, <<>> when it is above 0x10FFFF
Utf8Encode(codepoint) ==
    IF codepoint < 128 THEN <<codepoint>>
    ELSE IF codepoint < 2048
    THEN <<192 + (codepoint \div 64), 128 + (codepoint % 64)>>
    ELSE IF codepoint < 65536
    THEN <<224 + (codepoint \div 4096), 128 + ((codepoint \div 64) % 64),
           128 + (codepoint % 64)>>
    ELSE IF codepoint <= 1114111
    THEN <<240 + (codepoint \div 262144), 128 + ((codepoint \div 4096) % 64),
           128 + ((codepoint \div 64) % 64), 128 + (codepoint % 64)>>
    ELSE <<>>

\* [len, bytes]: Some(sequence_length) and the bytes pushed, or len = 0 for None
utf16_literal_to_utf8(input_pointer, input_end) ==
    LET None == [len |-> 0, bytes |-> <<>>]
        Encoded(sequence_length, bytes) ==
            IF bytes = <<>> THEN None
            ELSE [len |-> sequence_length, bytes |-> bytes]
        Pair(first_code, second_code) ==
            IF second_code < 0 THEN None
            ELSE IF ~(second_code >= 56320 /\ second_code <= 57343) THEN None
            ELSE Encoded(12, Utf8Encode(65536 + (((first_code % 1024) * 1024)
                                                 + (second_code % 1024))))
        First(first_code) ==
            IF first_code < 0 THEN None
            ELSE IF first_code >= 56320 /\ first_code <= 57343 THEN None
            ELSE IF first_code >= 55296 /\ first_code <= 56319
            THEN IF Len(input_pointer) < 12
                    \/ SubSeq(input_pointer, 7, 8) # <<CH_BACKSLASH, CH_u>>
                 THEN None
                 ELSE Pair(first_code, parse_hex4(SubSeq(input_pointer, 9, 12)))
            ELSE Encoded(6, Utf8Encode(first_code))
    IN IF Len(input_pointer) < 6 \/ Len(input_end) < 6 THEN None
       ELSE First(parse_hex4(SubSeq(input_pointer, 3, 6)))

\* String::from_utf8(v).is_ok()
RECURSIVE Utf8Valid(_)
Utf8Valid(v) ==
    IF v = <<>> THEN TRUE
    ELSE LET b == v[1]
             cont(i) == Len(v) >= i /\ v[i] >= 128 /\ v[i] <= 191
         IN IF b < 128 THEN Utf8Valid(Tail(v))
            ELSE IF b >= 194 /\ b <= 223
            THEN cont(2) /\ Utf8Valid(SliceFrom(v, 2))
            ELSE IF b >= 224 /\ b <= 239
            THEN cont(2) /\ cont(3)
                 /\ (b = 224 => v[2] >= 160) /\ (b = 237 => v[2] <= 159)
                 /\ Utf8Valid(SliceFrom(v, 3))
            ELSE IF b >= 240 /\ b <= 244
            THEN cont(2) /\ cont(3) /\ cont(4)
                 /\ (b = 240 => v[2] >= 144) /\ (b = 244 => v[2] <= 143)
                 /\ Utf8Valid(SliceFrom(v, 4))
            ELSE FALSE

\* the first loop of parse_string: [ok, end, skipped], `end` the slice input_end
RECURSIVE ScanStringEnd(_, _)
ScanStringEnd(input_end, skipped_bytes) ==
    IF Len(input_end) > 0 /\ input_end[1] # CH_QUOTE
    THEN IF input_end[1] = CH_BACKSLASH
         THEN IF Len(input_end) < 2
              THEN [ok |-> FALSE, end |-> input_end, skipped |-> skipped_bytes]
              ELSE ScanStringEnd(SliceFrom(input_end, 2), skipped_bytes + 1)
         ELSE ScanStringEnd(SliceFrom(input_end, 1), skipped_bytes)
    ELSE [ok |-> TRUE, end |-> input_end, skipped |-> skipped_bytes]

\* the second loop of parse_string: `while input_pointer < input_end` compares
\* the two slices, which is the lexicographic order of their bytes.
\* [res, output] with res = "ok", "fail" or "panic"
RECURSIVE CopyString(_, _, _)
CopyString(input_pointer, input_end, output) ==
    IF ~SliceLess(input_pointer, input_end) THEN [res |-> "ok", output |-> output]
    ELSE IF input_pointer = <<>> THEN [res |-> "panic", output |-> output]
    ELSE IF input_pointer[1] # CH_BACKSLASH
    THEN CopyString(Tail(input_pointer), input_end, Append(output, input_pointer[1]))
    ELSE IF Len(input_pointer) < 2 THEN [res |-> "fail", output |-> output]
    ELSE LET c == input_pointer[2]
             rest == SliceFrom(input_pointer, 2)
             Unicode(u) ==
                 IF u.len = 0 THEN [res |-> "fail", output |-> output]
                 ELSE CopyString(SliceFrom(input_pointer, u.len), input_end,
                                 output \o u.bytes)
         IN IF c = CH_b THEN CopyString(rest, input_end, Append(output, CH_BS))
            ELSE IF c = CH_f THEN CopyString(rest, input_end, Append(output, CH_FF))
            ELSE IF c = CH_n THEN CopyString(rest, input_end, Append(output, CH_LF))
            ELSE IF c = CH_r THEN CopyString(rest, input_end, Append(output, CH_CR))
            ELSE IF c = CH_t THEN CopyString(rest, input_end, Append(output, CH_TAB))
            ELSE IF c \in {CH_QUOTE, CH_BACKSLASH, CH_SLASH}
            THEN CopyString(rest, input_end, Append(output, c))
            ELSE IF c = CH_u
            THEN Unicode(utf16_literal_to_utf8(input_pointer, input_end))
            ELSE [res |-> "fail", output |-> output]

\* [res, node, offset] with res = "ok", "fail" or "panic"
parse_string(node, p) ==
    LET Fail == [res |-> "fail", node |-> node, offset |-> p.offset]
        Crash == [res |-> "panic", node |-> node, offset |-> p.offset]
        Copied(input_end, copy) ==
            IF copy.res # "ok"
            THEN [res |-> copy.res, node |-> node, offset |-> p.offset]
            ELSE IF ~Utf8Valid(copy.output) THEN Fail
            ELSE [res |-> "ok",
                  node |-> [node EXCEPT !.item_type = CJSON_STRING,
                                        !.valuestring = copy.output],
                  offset |-> p.offset + Len(input_end) + 1]
        Scanned(at, scan) ==
            IF ~scan.ok THEN Fail
            ELSE IF scan.end = <<>> \/ scan.end[1] # CH_QUOTE THEN Fail
            ELSE IF Len(scan.end) < scan.skipped THEN Crash   \* usize subtraction
            ELSE Copied(scan.end, CopyString(Tail(at), scan.end, <<>>))
        Opened(at) ==
            IF at = <<>> \/ at[1] # CH_QUOTE THEN Fail
            ELSE Scanned(at, ScanStringEnd(Tail(at), 0))
    IN IF ~SliceInRange(p) THEN Crash
       ELSE Opened(buffer_at_offset(p))

(***************************** parser: recursive descent ******************)
(* A frame is one activation of parse_array or parse_object waiting for    *)
(* the parse_value of its newest element: [fn, item, head, current].       *)
(***************************************************************************)
Return(p, ok) == [p EXCEPT !.pc = "ret", !.ok = ok]
PopReturn(p, ok) ==
    [p EXCEPT !.pc = "ret", !.ok = ok, !.stack = SubSeq(p.stack, 1, Len(p.stack) - 1)]

\* cjson_delete(head) of a partially built chain, then `return false`
DeleteAndFail(p, head) ==
    LET Deleted(d) ==
            IF d.out # "ok" THEN Panic([p EXCEPT !.heap = d.heap])
            ELSE PopReturn([p EXCEPT !.heap = d.heap], FALSE)
    IN Deleted(cjson_delete(p.heap, head))

\* "Allocate a new item" and "Attach the new item to the linked list"
LinkNewItem(p, frame) ==
    LET new_item == NewId(p.heap) IN
    IF frame.head = 0
    THEN [p |-> [p EXCEPT !.heap = Alloc(p.heap, cJSON_New_Item)],
          frame |-> [frame EXCEPT !.head = new_item, !.current = new_item]]
    ELSE [p |-> [p EXCEPT !.heap =
                    [Alloc(p.heap, cJSON_New_Item)
                       EXCEPT ![frame.current].next = new_item,
                              ![new_item].prev = frame.current]],
          frame |-> [frame EXCEPT !.current = new_item]]

\* parse_array, from the top of its loop to the call of parse_value
\* (`rest` is the stack below this activation)
ArrayLoopHead(p0, frame0, rest) ==
    LET Value(frame, p1) ==
            IF p1.out # "ok" THEN p1
            ELSE [p1 EXCEPT !.stack = Append(rest, frame), !.pc = "value",
                            !.cur = frame.current]
        Linked(l) ==
            Value(l.frame, skip_whitespace([l.p EXCEPT !.offset = l.p.offset + 1]))
    IN Linked(LinkNewItem(p0, frame0))

\* parse_array with the ceiling test weakened from >= to >
parse_array_above_ceiling(p, item) ==
    LET Elements(p2) ==
            IF p2.out # "ok" THEN p2
            ELSE IF can_access_at_index(p2, 0) /\ FirstByte(p2) = CH_RBRACKET
            THEN Return([p2 EXCEPT !.depth = p2.depth - 1,
                                   !.heap[item].item_type = CJSON_ARRAY], TRUE)
            ELSE ArrayLoopHead([p2 EXCEPT !.offset = p2.offset - 1],
                               [fn |-> "array", item |-> item, head |-> 0,
                                current |-> 0],
                               p2.stack)
        Entered(p1) ==
            IF ~SliceInRange(p1) THEN Panic(p1)
            ELSE IF FirstByte(p1) # CH_LBRACKET THEN Return(p1, FALSE)
            ELSE Elements(skip_whitespace([p1 EXCEPT !.offset = p1.offset + 1]))
    IN IF p.depth > CJSON_NESTING_LIMIT THEN Return(p, FALSE)
       ELSE Entered([p EXCEPT !.depth = p.depth + 1])

\* parse_array, from its entry to the first parse_value or its return
parse_array(p, item) ==
    LET Elements(p2) ==
            IF p2.out # "ok" THEN p2
            ELSE IF can_access_at_index(p2, 0) /\ FirstByte(p2) = CH_RBRACKET
            THEN Return([p2 EXCEPT !.depth = p2.depth - 1,
                                   !.heap[item].item_type = CJSON_ARRAY], TRUE)
            ELSE ArrayLoopHead([p2 EXCEPT !.offset = p2.offset - 1],
                               [fn |-> "array", item |-> item, head |-> 0,
                                current |-> 0],
                               p2.stack)
        Entered(p1) ==
            IF ~SliceInRange(p1) THEN Panic(p1)
            ELSE IF FirstByte(p1) # CH_LBRACKET THEN Return(p1, FALSE)
            ELSE Elements(skip_whitespace([p1 EXCEPT !.offset = p1.offset + 1]))
    IN IF p.depth >= CJSON_NESTING_LIMIT THEN Return(p, FALSE)
       ELSE Entered([p EXCEPT !.depth = p.depth + 1])

\* "Update the CJSON item" of parse_array and parse_object
CloseContainer(p1, frame, kind) ==
    PopReturn([p1 EXCEPT !.depth = p1.depth - 1,
                         !.heap = [[p1.heap EXCEPT ![frame.head].prev = frame.current]
                                      EXCEPT ![frame.item].item_type = kind,
                                             ![frame.item].child = frame.head],
                         !.offset = p1.offset + 1], TRUE)

\* parse_array, from the return of parse_value on
ArrayAfterValue(p, frame) ==
    LET Skipped(p1) ==
            IF p1.out # "ok" THEN p1
            ELSE IF can_access_at_index(p1, 0) /\ FirstByte(p1) = CH_COMMA
            THEN ArrayLoopHead(p1, frame, SubSeq(p1.stack, 1, Len(p1.stack) - 1))
            ELSE IF cannot_access_at_index(p1, 0) \/ FirstByte(p1) # CH_RBRACKET
            THEN DeleteAndFail(p1, frame.head)
            ELSE CloseContainer(p1, frame, CJSON_ARRAY)
    IN IF ~p.ok THEN DeleteAndFail(p, frame.head)
       ELSE Skipped(skip_whitespace(p))

\* parse_object, from the top of its loop to the call of parse_value
ObjectLoopHead(p0, frame0, rest) ==
    LET Failed(q) == [q EXCEPT !.stack = rest, !.pc = "ret", !.ok = FALSE]
        Value(frame, p4) ==
            IF p4.out # "ok" THEN p4
            ELSE [p4 EXCEPT !.stack = Append(rest, frame), !.pc = "value",
                            !.cur = frame.current]
        Colon(frame, p3) ==
            IF cannot_access_at_index(p3, 0) \/ FirstByte(p3) # CH_COLON
            THEN Failed(p3)
            ELSE Value(frame, skip_whitespace([p3 EXCEPT !.offset = p3.offset + 1]))
        \* new_item.string = new_item.valuestring.take()
        Swap(frame, p2) ==
            IF p2.out # "ok" THEN p2
            ELSE Colon(frame,
                       [p2 EXCEPT !.heap[frame.current].string =
                                      p2.heap[frame.current].valuestring,
                                  !.heap[frame.current].valuestring = NoneStr])
        Key(frame, p1, key) ==
            IF key.res = "panic" THEN Panic(p1)
            ELSE IF key.res = "fail" THEN Failed(p1)
            ELSE Swap(frame, skip_whitespace([p1 EXCEPT !.heap[frame.current] = key.node,
                                                        !.offset = key.offset]))
        Name(frame, p1) ==
            IF p1.out # "ok" THEN p1
            ELSE Key(frame, p1, parse_string(p1.heap[frame.current], p1))
        Linked(l) ==
            Name(l.frame, skip_whitespace([l.p EXCEPT !.offset = l.p.offset + 1]))
    IN Linked(LinkNewItem(p0, frame0))

\* parse_object, from its entry to the first parse_value or its return
parse_object(p, item) ==
    LET Members(p2) ==
            IF p2.out # "ok" THEN p2
            ELSE IF can_access_at_index(p2, 0) /\ FirstByte(p2) = CH_RBRACE
            THEN Return([p2 EXCEPT !.depth = p2.depth - 1,
                                   !.heap[item].item_type = CJSON_OBJECT], TRUE)
            ELSE ObjectLoopHead([p2 EXCEPT !.offset = p2.offset - 1],
                                [fn |-> "object", item |-> item, head |-> 0,
                                 current |-> 0],
                                p2.stack)
        Entered(p1) ==
            IF cannot_access_at_index(p1, 0) \/ FirstByte(p1) # CH_LBRACE
            THEN Return(p1, FALSE)
            ELSE Members(skip_whitespace([p1 EXCEPT !.offset = p1.offset + 1]))
    IN IF p.depth >= CJSON_NESTING_LIMIT THEN Return(p, FALSE)
       ELSE Entered([p EXCEPT !.depth = p.depth + 1])

\* parse_object, from the return of parse_value on
ObjectAfterValue(p, frame) ==
    LET Skipped(p1) ==
            IF p1.out # "ok" THEN p1
            ELSE IF can_access_at_index(p1, 0) /\ FirstByte(p1) = CH_COMMA
            THEN ObjectLoopHead(p1, frame, SubSeq(p1.stack, 1, Len(p1.stack) - 1))
            ELSE IF cannot_access_at_index(p1, 0) \/ FirstByte(p1) # CH_RBRACE
            THEN DeleteAndFail(p1, frame.head)
            ELSE CloseContainer(p1, frame, CJSON_OBJECT)
    IN IF ~p.ok THEN PopReturn(p, FALSE)
       ELSE Skipped(skip_whitespace(p))

\* parse_value, up to its return or to the first parse_value of a container
parse_value(p, item) ==
    LET at == buffer_at_offset(p)
        first == FirstByte(p)
        String(r) ==
            IF r.res = "panic" THEN Panic(p)
            ELSE Return([p EXCEPT !.heap[item] = r.node, !.offset = r.offset],
                        r.res = "ok")
        Number(r) ==
            Return([p EXCEPT !.heap[item] = r.node, !.offset = r.offset], r.ok)
    IN IF p.content = <<>> THEN Return(p, FALSE)
       ELSE IF can_read(p, 4) /\ StartsWith(at, STR_null)
       THEN Return([p EXCEPT !.heap[item].item_type = CJSON_NULL,
                             !.offset = p.offset + 4], TRUE)
       ELSE IF can_read(p, 5) /\ StartsWith(at, STR_false)
       THEN Return([p EXCEPT !.heap[item].item_type = CJSON_FALSE,
                             !.offset = p.offset + 5], TRUE)
       ELSE IF can_read(p, 4) /\ StartsWith(at, STR_true)
       THEN Return([p EXCEPT !.heap[item].item_type = CJSON_TRUE,
                             !.heap[item].valueint = 1,
                             !.offset = p.offset + 4], TRUE)
       ELSE IF first = CH_QUOTE THEN String(parse_string(p.heap[item], p))
       ELSE IF first = CH_MINUS \/ (first >= CH_0 /\ first <= CH_9)
       THEN Number(parse_number(p.heap[item], p))
       ELSE IF first = CH_LBRACKET THEN parse_array(p, item)
       ELSE IF first = CH_LBRACE THEN parse_object(p, item)
       ELSE Return(p, FALSE)

\* one step of the descent
ParseStep(p) ==
    IF p.pc = "value" THEN parse_value(p, p.cur)
    ELSE IF p.pc = "ret"
    THEN IF p.stack = <<>> THEN [p EXCEPT !.pc = "done"]
         ELSE LET frame == p.stack[Len(p.stack)] IN
              IF frame.fn = "array" THEN ArrayAfterValue(p, frame)
              ELSE ObjectAfterValue(p, frame)
    ELSE p

RECURSIVE ParseRun(_)
ParseRun(p) == IF p.pc = "done" THEN p ELSE ParseRun(ParseStep(p))

(***************************** parser: entry points ************************)
(* GLOBAL_ERROR is [json, position], json = NoneStr for None.  A parse     *)
(* call returns [out, ret, heap, err, parse_end, offset]: ret the root     *)
(* handle or 0 for None, err the slot afterwards, parse_end the value      *)
(* stored through return_parse_end (-1: not stored).                       *)
(***************************************************************************)
NoError == [json |-> NoneStr, position |-> 0]

cjson_get_error_ptr(e) ==
    IF e.json # NoneStr /\ e.position < Len(e.json)
    THEN LET rest == SliceFrom(e.json, e.position) IN
         IF Utf8Valid(rest) THEN rest ELSE NoneStr
    ELSE NoneStr

IdleParser ==
    [content |-> <<>>, length |-> 0, offset |-> 0, depth |-> 0, heap |-> <<>>,
     stack |-> <<>>, pc |-> "idle", cur |-> 0, ok |-> FALSE, out |-> "ok",
     root |-> 0, early |-> FALSE]

\* cjson_parse_with_length_opts up to the call of parse_value
ParseBegin(h, value, buffer_length) ==
    IF value = <<>> \/ buffer_length = 0
    THEN [IdleParser EXCEPT !.heap = h, !.pc = "done", !.early = TRUE]
    ELSE skip_whitespace(
             [IdleParser EXCEPT !.content = value, !.length = buffer_length,
                                !.heap = Alloc(h, cJSON_New_Item),
                                !.pc = "value", !.cur = NewId(h), !.root = NewId(h)])

ParseResult(out, ret, h, e, parse_end, offset) ==
    [out |-> out, ret |-> ret, heap |-> h, err |-> e, parse_end |-> parse_end,
     offset |-> offset]

handle_parse_failure(p, value) ==
    LET Recorded(d, position) ==
            ParseResult(d.out, 0, d.heap, [json |-> value, position |-> position],
                        position, p.offset)
    IN Recorded(cjson_delete(p.heap, p.root),
                IF p.offset < p.length THEN p.offset
                ELSE IF p.length > 0 THEN p.length - 1
                ELSE 0)

\* cjson_parse_with_length_opts from the return of parse_value on
ParseEnd(p, value, require_null_terminated) ==
    LET Crashed(q) == ParseResult(q.out, 0, q.heap, NoError, -1, q.offset)
        Done(q) == ParseResult("ok", q.root, q.heap, NoError, q.offset, q.offset)
        \* fail: the parse failed, or the terminator is missing
        Checked(q, fail) ==
            IF fail THEN handle_parse_failure(q, value) ELSE Done(q)
        Terminated(p1) ==
            IF p1.out # "ok" THEN Crashed(p1)
            ELSE IF p1.offset < p1.length /\ ~SliceInRange(p1)
            THEN Crashed(Panic(p1))
            ELSE Checked(p1, p1.offset >= p1.length \/ FirstByte(p1) # CH_NUL)
    IN IF p.early THEN ParseResult("ok", 0, p.heap, NoError, -1, 0)
       ELSE IF p.out # "ok" THEN Crashed(p)
       ELSE IF p.ok /\ require_null_terminated THEN Terminated(skip_whitespace(p))
       ELSE Checked(p, ~p.ok)

cjson_parse_with_length_opts(h, value, buffer_length, require_null_terminated) ==
    ParseEnd(ParseRun(ParseBegin(h, value, buffer_length)), value,
             require_null_terminated)

cjson_parse_with_length(h, value, buffer_length) ==
    cjson_parse_with_length_opts(h, value, buffer_length, FALSE)

\* `e` is the slot before the call: an empty value returns before the reset
cjson_parse_with_opts(h, e, value, require_null_terminated) ==
    IF value = <<>> THEN ParseResult("ok", 0, h, e, -1, 0)
    ELSE cjson_parse_with_length_opts(h, value,
             Len(value) + (IF require_null_terminated THEN 1 ELSE 0),
             require_null_terminated)

cjson_parse(h, e, value) == cjson_parse_with_opts(h, e, value, FALSE)

(***************************************************************************)
(* Input families.  Texts are byte sequences; every byte is ASCII, so      *)
(* every text is a valid &str.                                             *)
(***************************************************************************)
MaxTextLen == 4

SeqsUpTo(S, n) == UNION {[1..k -> S] : k \in 0..n}

RECURSIVE Flatten(_)
Flatten(ss) == IF ss = <<>> THEN <<>> ELSE Head(ss) \o Flatten(Tail(ss))

Prefixes(t) == {SubSeq(t, 1, k) : k \in 0..Len(t)}

FuzzBytes ==
    {CH_LBRACKET, CH_RBRACKET, CH_COMMA, CH_SPACE, CH_0 + 1, CH_QUOTE,
     CH_BACKSLASH, CH_n, CH_NUL}

FuzzTexts == SeqsUpTo(FuzzBytes, MaxTextLen)

\* { "name": 1}   (tests/parse_examples.rs test12 is its prefix { "name": )
DOC_NAME == <<123, 32, 34, 110, 97, 109, 101, 34, 58, 32, 49, 125>>
\* {"abc":1}
DOC_ABC == <<123, 34, 97, 98, 99, 34, 58, 49, 125>>
\* {"a":1}
DOC_A == <<123, 34, 97, 34, 58, 49, 125>>
\* {"":1}
DOC_EMPTY_KEY == <<123, 34, 34, 58, 49, 125>>
\* [[],1]
DOC_NESTED == <<91, 91, 93, 44, 49, 93>>
\* [{}]
DOC_OBJ_IN_ARRAY == <<91, 123, 125, 93>>
\* ["a", 1]
DOC_MIXED == <<91, 34, 97, 34, 44, 32, 49, 93>>
\* [true, null]
DOC_LITERALS == <<91, 116, 114, 117, 101, 44, 32, 110, 117, 108, 108, 93>>

Docs ==
    {DOC_NAME, DOC_ABC, DOC_A, DOC_EMPTY_KEY, DOC_NESTED, DOC_OBJ_IN_ARRAY,
     DOC_MIXED, DOC_LITERALS}

DocTexts == UNION {Prefixes(d) : d \in Docs}

\* documents cut after a complete token, so that the text ends where the
\* next token is expected:  { "name":_   ["a",_   [1,_   {"abc":1,   {"a":
TruncatedDocs ==
    {SubSeq(DOC_NAME, 1, 10), SubSeq(DOC_MIXED, 1, 6), <<91, 49, 44, 32>>,
     <<123, 34, 97, 98, 99, 34, 58, 49, 44>>, SubSeq(DOC_A, 1, 5)}

\* string literals: a body of pieces between two quotes
MaxPieces == 2

ESC_HIGH == <<92, 117, 68, 56, 51, 68>>      \* \uD83D
ESC_LOW == <<92, 117, 68, 69, 48, 48>>       \* \uDE00
ESC_BMP == <<92, 117, 48, 48, 52, 49>>       \* A
ESC_NEWLINE == <<92, 110>>                   \* \n
UTF8_PAIR == <<240, 159, 152, 128>>          \* U+1F600, from D83D DE00

StringPieces == {<<CH_a>>, <<CH_SPACE>>, ESC_NEWLINE, ESC_BMP, ESC_HIGH, ESC_LOW}

Bodies == SeqsUpTo(StringPieces, MaxPieces)

Literal(body) == <<CH_QUOTE>> \o Flatten(body) \o <<CH_QUOTE>>

StringTexts ==
    {Literal(b) : b \in Bodies} \cup
    {<<CH_LBRACKET>> \o Literal(b) \o <<CH_RBRACKET>> : b \in Bodies}

ParseTexts == FuzzTexts \cup DocTexts \cup TruncatedDocs \cup StringTexts

(***************************************************************************)
(* Parse calls.  Every call parses into an empty arena (the caller has     *)
(* released the tree of the call before); `call` keeps what the caller     *)
(* passed and what came back, `live` the handle it now holds.              *)
(***************************************************************************)
NoCall == [fn |-> "none", seq |-> 0]

ParseCall(fn, value, length, rnt, r) ==
    /\ call' = [fn |-> fn, seq |-> call.seq + 1, text |-> value,
                length |-> length, rnt |-> rnt, out |-> r.out, ret |-> r.ret,
                offset |-> r.offset, parse_end |-> r.parse_end]
    /\ heap' = r.heap
    /\ err' = r.err
    /\ live' = {r.ret} \ {0}
    /\ crashed' = (r.out # "ok")
    /\ UNCHANGED ps

Parse(texts, calls) ==
    /\ ~crashed /\ call.seq < calls
    /\ \E value \in texts :
          ParseCall("cjson_parse", value, Len(value), FALSE,
                    cjson_parse(<<>>, err, value))

ParseWithOpts(texts, calls) ==
    /\ ~crashed /\ call.seq < calls
    /\ \E value \in texts, rnt \in BOOLEAN :
          ParseCall("cjson_parse_with_opts", value,
                    Len(value) + (IF rnt THEN 1 ELSE 0), rnt,
                    cjson_parse_with_opts(<<>>, err, value, rnt))

ParseWithLength(texts, calls) ==
    /\ ~crashed /\ call.seq < calls
    /\ \E value \in texts :
       \E buffer_length \in 0..(Len(value) + 1) :
          ParseCall("cjson_parse_with_length", value, buffer_length, FALSE,
                    cjson_parse_with_length(<<>>, value, buffer_length))

InitParse ==
    /\ heap = <<>> /\ err = NoError /\ ps = IdleParser /\ call = NoCall
    /\ live = {} /\ crashed = FALSE

NextParse ==
    \/ Parse(ParseTexts, 1)
    \/ ParseWithOpts(ParseTexts, 1)
    \/ ParseWithLength(ParseTexts, 1)

SpecParse == InitParse /\ [][NextParse]_vars

IsParseCall == call.fn \in {"cjson_parse", "cjson_parse_with_opts",
                            "cjson_parse_with_length"}
CallFailed == IsParseCall /\ call.out = "ok" /\ call.ret = 0
CallSucceeded == IsParseCall /\ call.out = "ok" /\ call.ret # 0

(***************************************************************************)
(* Structural view of a tree: kind, value, key and the children in order.  *)
(***************************************************************************)
RECURSIVE Shape(_, _), ShapeList(_, _)
Shape(h, n) ==
    LET kind == TypeBits(h[n].item_type) IN
    [kind |-> kind,
     str |-> IF kind = CJSON_STRING THEN h[n].valuestring ELSE NoneStr,
     num |-> IF kind = CJSON_NUMBER THEN h[n].valuedouble ELSE NumZero,
     key |-> h[n].string,
     kids |-> ShapeList(h, h[n].child)]
ShapeList(h, c) ==
    IF c = 0 THEN <<>> ELSE <<Shape(h, c)>> \o ShapeList(h, h[c].next)

Infix(x, s) == \E i \in 0..(Len(s) - Len(x)) : SubSeq(s, i + 1, i + Len(x)) = x

(***************************************************************************)
(* Claims about single parse calls (SpecParse).                            *)
(***************************************************************************)

\* C2: cjson_parse_with_length(text, length) with 0 < length <= len(text)
\* gives the result it gives on the first `length` bytes alone (same
\* outcome, same tree), and a successful parse has consumed nothing at or
\* beyond `length`.
C2_OnlyFirstLengthBytes ==
    LET Same(r) ==
            /\ r.out = call.out
            /\ (r.ret = 0) = (call.ret = 0)
            /\ (call.out = "ok" /\ call.ret # 0 /\ r.ret # 0
                  => Shape(heap, call.ret) = Shape(r.heap, r.ret))
            /\ (call.out = "ok" /\ call.ret # 0 => call.offset <= call.length)
    IN (call.fn = "cjson_parse_with_length" /\ call.length > 0
          /\ call.length <= Len(call.text))
       => Same(cjson_parse_with_length(<<>>, SubSeq(call.text, 1, call.length),
                                       call.length))

\* C6: after a failed parse of a non-empty input the error pointer is the
\* suffix of the input at the failure offset, clamped to the last valid
\* index; for a document cut after a complete token the parser cannot
\* proceed past the end of the text, so at most the last byte remains.
C6_ErrorPointerAtFailure ==
    (CallFailed /\ call.text # <<>> /\ call.length > 0
        /\ call.length <= Len(call.text))
    => LET at == IF call.offset < call.length THEN call.offset
                 ELSE call.length - 1
       IN /\ cjson_get_error_ptr(err) = SliceFrom(call.text, at)
          /\ (call.text \in TruncatedDocs /\ call.length = Len(call.text)
                => Len(cjson_get_error_ptr(err)) <= 1)

HasSurrogatePair(body) ==
    \E i \in 1..(Len(body) - 1) : body[i] = ESC_HIGH /\ body[i + 1] = ESC_LOW

HasLoneSurrogate(body) ==
    \/ \E i \in 1..Len(body) :
          body[i] = ESC_LOW /\ (i = 1 \/ body[i - 1] # ESC_HIGH)
    \/ \E i \in 1..Len(body) :
          body[i] = ESC_HIGH /\ (i = Len(body) \/ body[i + 1] # ESC_LOW)

WholeText == IsParseCall /\ ~call.rnt /\ call.length = Len(call.text)

\* C8: a string literal containing the escape pair 😀 parses to a
\* String node whose value contains the 4-byte UTF-8 encoding of U+1F600.
C8_SurrogatePairDecoded ==
    \A body \in Bodies :
       (WholeText /\ HasSurrogatePair(body) /\ call.text = Literal(body))
       => /\ CallSucceeded
          /\ TypeBits(heap[call.ret].item_type) = CJSON_STRING
          /\ Infix(UTF8_PAIR, heap[call.ret].valuestring)

\* C9: parsing fails for every string literal with a low surrogate escape
\* that no high surrogate precedes, or a high surrogate escape that no low
\* surrogate follows.
C9_LoneSurrogateFails ==
    \A body \in Bodies :
       (WholeText /\ HasLoneSurrogate(body) /\ call.text = Literal(body))
       => CallFailed


\* C17: every parse call returns, with a tree or with None: no call ends in
\* an index or slice out of range or in an arithmetic overflow.
C17_ParseReturns ==
    IsParseCall => call.out = "ok"


\* the offset of the first byte of text at or after i that is not whitespace
RECURSIVE AfterWhitespace(_, _)
AfterWhitespace(text, i) ==
    IF i < Len(text) /\ IsAsciiWhitespace(text[i + 1])
    THEN AfterWhitespace(text, i + 1)
    ELSE i

\* C18: with require_null_terminated, cjson_parse_with_opts of a text whose
\* value parses (ending at offset parse_end without the flag) returns a tree
\* exactly when the first byte after the value and the whitespace behind it
\* is 0x00, and otherwise returns None with the last-error slot at that byte.
C18_NullTerminatorRequired ==
    (call.fn = "cjson_parse_with_opts" /\ call.rnt /\ call.text # <<>>)
    => LET Terminated(at) ==
               at < Len(call.text) /\ call.text[at + 1] = CH_NUL
           Checked(at) ==
               /\ call.out = "ok"
               /\ call.ret # 0 <=> Terminated(at)
               /\ call.ret = 0 => err = [json |-> call.text, position |-> at]
           Unflagged(r) ==
               (r.out = "ok" /\ r.ret # 0)
               => Checked(AfterWhitespace(call.text, r.parse_end))
       IN Unflagged(cjson_parse_with_length_opts(<<>>, call.text,
                                                 Len(call.text) + 1, FALSE))

(***************************************************************************)
(* Ownership.  next, prev and child are counted handles (Rc): a node is    *)
(* released when the last handle to it is dropped, and releasing it drops  *)
(* the handles it holds.  Retained gives the nodes of S that are never     *)
(* released when only the nodes of `held` are held from outside the arena. *)
(***************************************************************************)
Holders(h, S, n) == {m \in S : n \in {h[m].next, h[m].prev, h[m].child}}

RECURSIVE Retained(_, _, _)
Retained(h, S, held) ==
    LET free == {n \in S : n \notin held /\ Holders(h, S, n) = {}} IN
    IF free = {} THEN S ELSE Retained(h, S \ free, held)

\* C21: when a parse call returns None, every node allocated during the call
\* has been released: no node of a partially built sibling chain, at any
\* depth, is still held afterwards.
C21_FailedParseReleasesAll ==
    CallFailed => Retained(heap, DOMAIN heap, {}) = {}

(***************************************************************************)
(* Sequences of parse calls over a small family of texts (SpecErr).        *)
(***************************************************************************)
MaxCalls == 2
MaxErrLen == 2

ErrTexts == SeqsUpTo({CH_LBRACKET, CH_RBRACKET, CH_0 + 1}, MaxErrLen)

NextErr ==
    \/ Parse(ErrTexts, MaxCalls)
    \/ ParseWithOpts(ErrTexts, MaxCalls)
    \/ ParseWithLength(ErrTexts, MaxCalls)

SpecErr == InitParse /\ [][NextErr]_vars

\* C7: the last-error slot reflects only the most recent parse call: empty
\* after a success; after a failure it holds that call's input and clamped
\* failure offset (a call that had nothing to parse may leave it empty).
\* Nothing recorded by an earlier call is left in it.
C7_SlotOfLastCall ==
    (IsParseCall /\ call.out = "ok")
    => IF call.ret # 0 THEN err = NoError /\ cjson_get_error_ptr(err) = NoneStr
       ELSE \/ /\ err.json = call.text
               /\ err.position = (IF call.offset < call.length THEN call.offset
                                  ELSE Max(call.length - 1, 0))
            \/ /\ (call.text = <<>> \/ call.length = 0)
               /\ err = NoError

(***************************************************************************)
(* Building trees (SpecTree): the constructors, the Mutation API, and a    *)
(* caller that prints what it has built.                                   *)
(***************************************************************************)
MaxNodes == 3
MaxAdds == 2
MaxSlack == 1

TreeNumbers == {NumFin(TRUE, <<CH_0 + 1, CH_0 + 5>>, -1)}              \* -1.5
TreeStrings == {<<CH_a>>, <<CH_QUOTE>>}                                \* a, "
TreeKeys == TreeStrings

Handles == 1..Len(heap)

\* a run of the caller builds its nodes and ends by observing one of them
\* (printing leaves the nodes as they are, so nothing is built afterwards)
Observed == call.fn \in {"cjson_print", "round_trip", "cjson_print_preallocated"}

Created(fn, node) ==
    /\ ~crashed /\ ~Observed /\ Len(heap) < MaxNodes
    /\ heap' = Alloc(heap, node)
    /\ live' = live \cup {NewId(heap)}
    /\ call' = [fn |-> fn, seq |-> call.seq, ret |-> NewId(heap), out |-> "ok"]
    /\ UNCHANGED <<err, ps, crashed>>

CreateNull == Created("cjson_create_null", cjson_create_null)
CreateTrue == Created("cjson_create_true", cjson_create_true)
CreateFalse == Created("cjson_create_false", cjson_create_false)
CreateBool == \E b \in BOOLEAN : Created("cjson_create_bool", cjson_create_bool(b))
CreateNumber ==
    \E num \in TreeNumbers : Created("cjson_create_number", cjson_create_number(num))
CreateString ==
    \E s \in TreeStrings : Created("cjson_create_string", cjson_create_string(s))
CreateRaw == \E s \in TreeStrings : Created("cjson_create_raw", cjson_create_raw(s))
CreateArray == Created("cjson_create_array", cjson_create_array)
CreateObject == Created("cjson_create_object", cjson_create_object)

\* an operation on nodes the caller holds; r is [heap, ret, out]
Applied(fn, target, item, key, r, fresh) ==
    /\ ~Observed /\ call.seq < MaxAdds
    /\ heap' = r.heap
    /\ call' = [fn |-> fn, seq |-> call.seq + 1, target |-> target, item |-> item,
                key |-> key, ret |-> r.ret, out |-> r.out]
    /\ crashed' = (r.out # "ok")
    /\ live' = live \cup (IF fresh /\ r.out = "ok" THEN {r.ret} \ {0} ELSE {})
    /\ UNCHANGED <<err, ps>>

AddItemToArray ==
    /\ ~crashed
    /\ \E array \in live, item \in live :
          Applied("cjson_add_item_to_array", array, item, NoneStr,
                  cjson_add_item_to_array(heap, array, item), FALSE)

AddItemToObject ==
    /\ ~crashed
    /\ \E object \in live, item \in live, key \in TreeKeys :
          Applied("cjson_add_item_to_object", object, item, key,
                  cjson_add_item_to_object(heap, object, key, item), FALSE)

AddTrueToObject ==
    /\ ~crashed /\ Len(heap) < MaxNodes
    /\ \E object \in live, name \in TreeKeys :
          Applied("cjson_add_true_to_object", object, 0, name,
                  cjson_add_true_to_object(heap, object, name), TRUE)

AddFalseToObject ==
    /\ ~crashed /\ Len(heap) < MaxNodes
    /\ \E object \in live, name \in TreeKeys :
          Applied("cjson_add_false_to_object", object, 0, name,
                  cjson_add_false_to_object(heap, object, name), TRUE)

AddNumberToObject ==
    /\ ~crashed /\ Len(heap) < MaxNodes
    /\ \E object \in live, name \in TreeKeys, number \in TreeNumbers :
          Applied("cjson_add_number_to_object", object, 0, name,
                  cjson_add_number_to_object(heap, object, name, number), TRUE)

AddStringToObject ==
    /\ ~crashed /\ Len(heap) < MaxNodes
    /\ \E object \in live, name \in TreeKeys, string \in TreeStrings :
          Applied("cjson_add_string_to_object", object, 0, name,
                  cjson_add_string_to_object(heap, object, name, string), TRUE)

\* the nodes below `root`: closure of its child under child and next
RECURSIVE Closure(_, _, _)
Closure(h, frontier, acc) ==
    IF frontier \subseteq acc THEN acc
    ELSE LET new == frontier \ acc
         IN Closure(h, UNION {{h[n].child, h[n].next} \ {0} : n \in new},
                    acc \cup new)

Descendants(h, root) == Closure(h, {h[root].child} \ {0}, {})

RECURSIVE Chain(_, _)
Chain(h, c) == IF c = 0 THEN <<>> ELSE <<c>> \o Chain(h, h[c].next)

\* `root` heads a proper tree that nothing else links into: every node
\* below it has exactly one incoming link, array elements carry no key,
\* object members carry one, and only containers have children
WellBuilt(h, root) ==
    LET D == Descendants(h, root)
        T == D \cup {root}
    IN /\ root \notin D
       /\ h[root].next = 0 /\ h[root].string = NoneStr
       /\ \A m \in D :
             Cardinality({n \in T : h[n].child = m})
               + Cardinality({n \in D : h[n].next = m}) = 1
       /\ \A n \in (1..Len(h)) \ T : h[n].child \notin T /\ h[n].next \notin T
       /\ \A n \in T :
             /\ h[n].item_type \in {CJSON_FALSE, CJSON_TRUE, CJSON_NULL, CJSON_NUMBER,
                                    CJSON_STRING, CJSON_ARRAY, CJSON_OBJECT, CJSON_RAW}
             /\ h[n].child # 0 => h[n].item_type \in {CJSON_ARRAY, CJSON_OBJECT}
             /\ LET kids == Chain(h, h[n].child) IN
                \A i \in DOMAIN kids :
                   (h[kids[i]].string = NoneStr) = (h[n].item_type = CJSON_ARRAY)

\* cjson_print whose container arms take() the child chain out of the node
\* they render instead of cloning the link
PrintTreeTakingChild ==
    /\ ~crashed /\ ~Observed
    /\ \E item \in live :
          LET Printed(pr) ==
                  /\ call' = [fn |-> "cjson_print", seq |-> call.seq, item |-> item,
                              out |-> pr.out, text |-> pr.text]
                  /\ heap' = [heap EXCEPT ![item].child = 0]
                  /\ crashed' = (pr.out = "diverge")
                  /\ UNCHANGED <<err, ps, live>>
          IN Printed(cjson_print(heap, item))

\* the caller prints a node it holds
PrintTree ==
    /\ ~crashed /\ ~Observed
    /\ \E item \in live :
          LET Printed(pr) ==
                  /\ call' = [fn |-> "cjson_print", seq |-> call.seq, item |-> item,
                              out |-> pr.out, text |-> pr.text]
                  /\ crashed' = (pr.out = "diverge")
                  /\ UNCHANGED <<heap, err, ps, live>>
          IN Printed(cjson_print(heap, item))

\* the caller prints a node and parses the text back (the parsed tree is
\* kept as its structural view and released)
RoundTrip ==
    /\ ~crashed /\ ~Observed
    /\ \E item \in live :
          LET Parsed(text, r) ==
                  /\ call' = [fn |-> "round_trip", seq |-> call.seq, item |-> item,
                              text |-> text, out |-> r.out, ret |-> r.ret,
                              tree |-> IF r.out = "ok" /\ r.ret # 0
                                       THEN Shape(r.heap, r.ret) ELSE <<>>]
                  /\ err' = r.err
                  /\ crashed' = (r.out # "ok")
                  /\ UNCHANGED <<heap, ps, live>>
              Printed(pr) ==
                  /\ pr.out = "some"
                  /\ Parsed(pr.text, cjson_parse(<<>>, err, pr.text))
          IN Printed(cjson_print(heap, item))

\* src/test.rs print_preallocated: the caller renders with cjson_print and
\* then into a buffer whose capacity it chose from the rendered length
PrintPreallocated ==
    /\ ~crashed /\ ~Observed
    /\ \E item \in live :
          LET Filled(printed, capacity, length, r) ==
                  /\ call' = [fn |-> "cjson_print_preallocated", seq |-> call.seq,
                              item |-> item, printed |-> printed,
                              capacity |-> capacity, length |-> length,
                              ret |-> r.ret, out |-> r.out,
                              text |-> r.buffer.chars, cap |-> r.buffer.cap]
                  /\ crashed' = (r.out # "ok")
                  /\ UNCHANGED <<heap, err, ps, live>>
              Sized(printed, capacity) ==
                  \E length \in {capacity, capacity + 1} :
                     Filled(printed, capacity, length,
                            cjson_print_preallocated(heap, item,
                                [chars |-> <<>>, cap |-> capacity], length))
              Printed(pr) ==
                  /\ pr.out = "some"
                  /\ \E slack \in (-MaxSlack)..MaxSlack :
                        Sized(pr.text, Max(Len(pr.text) + slack, 0))
          IN Printed(cjson_print(heap, item))

\* the caller prints the node it has just printed once more
PrintAgain ==
    /\ ~crashed /\ call.fn = "cjson_print" /\ "again" \notin DOMAIN call
    /\ LET Printed(pr) ==
               /\ call' = [fn |-> "cjson_print", seq |-> call.seq, item |-> call.item,
                           out |-> pr.out, text |-> pr.text, again |-> TRUE]
               /\ crashed' = (pr.out = "diverge")
               /\ UNCHANGED <<heap, err, ps, live>>
       IN Printed(cjson_print(heap, call.item))

\* ... or renders it once more into a fresh buffer of the same capacity
PrintPreallocatedAgain ==
    /\ ~crashed /\ call.fn = "cjson_print_preallocated" /\ "again" \notin DOMAIN call
    /\ LET Filled(r) ==
               /\ call' = [fn |-> "cjson_print_preallocated", seq |-> call.seq,
                           item |-> call.item, printed |-> call.printed,
                           capacity |-> call.capacity, length |-> call.length,
                           ret |-> r.ret, out |-> r.out,
                           text |-> r.buffer.chars, cap |-> r.buffer.cap,
                           again |-> TRUE]
               /\ crashed' = (r.out # "ok")
               /\ UNCHANGED <<heap, err, ps, live>>
       IN Filled(cjson_print_preallocated(heap, call.item,
                     [chars |-> <<>>, cap |-> call.capacity], call.length))

InitTree == InitParse

NextTree ==
    \/ CreateNull \/ CreateTrue \/ CreateFalse \/ CreateBool \/ CreateNumber
    \/ CreateString \/ CreateRaw \/ CreateArray \/ CreateObject
    \/ AddItemToArray \/ AddItemToObject
    \/ AddTrueToObject \/ AddFalseToObject \/ AddNumberToObject
    \/ AddStringToObject
    \/ PrintTree \/ RoundTrip \/ PrintPreallocated
    \/ PrintAgain \/ PrintPreallocatedAgain

SpecTree == InitTree /\ [][NextTree]_vars

(***************************** claims over SpecTree *************************)

\* C1: for a tree built with the constructors and the add functions,
\* parsing the text cjson_print renders succeeds and gives a tree of the
\* same structure: same kind, string and number value at every node, same
\* child order, same member keys.
C1_RoundTrip ==
    (call.fn = "round_trip" /\ WellBuilt(heap, call.item))
    => /\ call.out = "ok" /\ call.ret # 0
       /\ call.tree = Shape(heap, call.item)

\* C3: when cjson_print renders a tree in N bytes, cjson_print_preallocated
\* into an empty buffer of capacity >= N, declared with that capacity as its
\* length, returns true and leaves exactly the cjson_print text in the buffer.
C3_PreallocatedMatchesPrint ==
    (call.fn = "cjson_print_preallocated" /\ WellBuilt(heap, call.item)
        /\ call.capacity >= Len(call.printed) /\ call.length = call.capacity)
    => /\ call.out = "ok" /\ call.ret
       /\ call.text = call.printed

\* C4: the declared capacity is a ceiling: with a declared length below the
\* rendered length N cjson_print_preallocated returns false, and the buffer
\* never gets longer or larger than the capacity it was given.
C4_CapacityIsCeiling ==
    (call.fn = "cjson_print_preallocated" /\ WellBuilt(heap, call.item))
    => /\ (call.length < Len(call.printed) => ~call.ret)
       /\ Len(call.text) <= call.capacity
       /\ call.cap <= call.capacity

\* what the claimed layout puts between the brackets for one child: the
\* child's own rendering, after `"key": ` for a member; NoneStr when the
\* child has no rendering
RenderedEntry(h, kid, member) ==
    LET Entry(pr) ==
            IF pr.out # "some" THEN NoneStr
            ELSE IF member
                 THEN <<CH_QUOTE>> \o StrOrEmpty(h[kid].string) \o <<CH_QUOTE>>
                         \o SEP_COLON \o pr.text
                 ELSE pr.text
    IN Entry(cjson_print(h, kid))

RECURSIVE JoinedEntries(_, _, _)
JoinedEntries(h, kids, member) ==
    IF kids = <<>> THEN <<>>
    ELSE IF Len(kids) = 1 THEN RenderedEntry(h, kids[1], member)
    ELSE RenderedEntry(h, kids[1], member) \o SEP_COMMA
            \o JoinedEntries(h, Tail(kids), member)

IsContainer(h, n) == h[n].item_type \in {CJSON_ARRAY, CJSON_OBJECT}

\* C11: cjson_print of an array or object gives the opening bracket, one
\* entry per node of the child chain in chain order joined by ", " (for an
\* object each entry is "key": value), and the closing bracket.
C11_ChildChainOrder ==
    (call.fn = "cjson_print" /\ WellBuilt(heap, call.item)
        /\ IsContainer(heap, call.item))
    => LET member == heap[call.item].item_type = CJSON_OBJECT
           kids == Chain(heap, heap[call.item].child)
       IN /\ call.out = "some"
          /\ \A i \in DOMAIN kids : RenderedEntry(heap, kids[i], member) # NoneStr
          /\ call.text = <<IF member THEN CH_LBRACE ELSE CH_LBRACKET>>
                            \o JoinedEntries(heap, kids, member)
                            \o <<IF member THEN CH_RBRACE ELSE CH_RBRACKET>>

Rendered ==
    \/ call.fn = "cjson_print" /\ call.out = "some"
    \/ call.fn = "cjson_print_preallocated" /\ call.out = "ok" /\ call.ret

\* the string literal of s: quoted, with " \ newline, carriage return, tab
\* and the other control characters escaped
QuotedEscaped(s) == <<CH_QUOTE>> \o EscapeChars(s) \o <<CH_QUOTE>>

\* C19: whichever printer rendered it, a String node is rendered as the
\* quoted and escaped literal of its value, and an object with members
\* starts with the quoted and escaped literal of its first member's key.
C19_StringsEscaped ==
    (Rendered /\ WellBuilt(heap, call.item))
    => LET node == heap[call.item]
           KeyFirst(key) ==
               StartsWith(call.text, <<CH_LBRACE>> \o key \o SEP_COLON)
       IN /\ node.item_type = CJSON_STRING
             => call.text = QuotedEscaped(node.valuestring)
          /\ (node.item_type = CJSON_OBJECT /\ node.child # 0)
             => KeyFirst(QuotedEscaped(heap[node.child].string))

\* C20: printing a Raw node succeeds and gives its payload as it is, and
\* printing an array whose only element is a Raw node gives the payload
\* between the brackets.
C20_RawLiteral ==
    (call.fn \in {"cjson_print", "cjson_print_preallocated"}
        /\ WellBuilt(heap, call.item))
    => LET node == heap[call.item]
           OnlyRaw(child) ==
               /\ child # 0 /\ heap[child].next = 0
               /\ heap[child].item_type = CJSON_RAW
       IN /\ node.item_type = CJSON_RAW
             => Rendered /\ call.text = node.valuestring
          /\ (node.item_type = CJSON_ARRAY /\ OnlyRaw(node.child))
             => /\ Rendered
                /\ call.text = <<CH_LBRACKET>> \o heap[node.child].valuestring
                                  \o <<CH_RBRACKET>>

(***************************** SpecNest: the descent, step by step *********)
(* One cjson_parse call on brackets nested around the ceiling, followed    *)
(* one parse_value / parse_array / parse_object activation at a time, so   *)
(* that the depth counter is visible at every entry.                       *)
(***************************************************************************)
MaxSmallNest == 2

Repeat(c, n) == [i \in 1..n |-> c]

NestDepths ==
    (0..MaxSmallNest)
      \cup {CJSON_NESTING_LIMIT - 1, CJSON_NESTING_LIMIT, CJSON_NESTING_LIMIT + 1}

\* what sits inside the innermost bracket: nothing, an object, a number
NestInner == {<<>>, <<CH_LBRACE, CH_RBRACE>>, <<CH_0 + 1>>}

NestText(opened, inner, closed) ==
    Repeat(CH_LBRACKET, opened) \o inner \o Repeat(CH_RBRACKET, closed)

\* the call enters cjson_parse: the text is `opened` brackets, `inner` (for
\* a shallow text also one of the documents), and either every matching
\* closing bracket or (for a shallow text) none
NestBegin ==
    /\ ps.pc = "idle" /\ call.seq = 0
    /\ \E opened \in NestDepths :
       \E inner \in NestInner \cup (IF opened <= MaxSmallNest THEN Docs ELSE {}) :
       \E closed \in {opened} \cup (IF opened <= MaxSmallNest THEN {0} ELSE {}) :
          /\ NestText(opened, inner, closed) # <<>>
          /\ ps' = ParseBegin(<<>>, NestText(opened, inner, closed),
                              Len(NestText(opened, inner, closed)))
          /\ call' = [fn |-> "parse_value", seq |-> 0,
                      text |-> NestText(opened, inner, closed),
                      opened |-> opened, inner |-> inner, closed |-> closed]
    /\ UNCHANGED <<heap, err, live, crashed>>

NestStep ==
    /\ ps.pc \in {"value", "ret"}
    /\ ps' = ParseStep(ps)
    /\ UNCHANGED <<heap, err, call, live, crashed>>

NestEnd ==
    /\ ps.pc = "done" /\ call.fn = "parse_value"
    /\ LET Ended(r) ==
               /\ call' = [fn |-> "cjson_parse", seq |-> call.seq + 1,
                           text |-> call.text, opened |-> call.opened,
                           inner |-> call.inner, closed |-> call.closed,
                           out |-> r.out, ret |-> r.ret, offset |-> r.offset,
                           parse_end |-> r.parse_end]
               /\ heap' = r.heap
               /\ err' = r.err
               /\ live' = {r.ret} \ {0}
               /\ crashed' = (r.out # "ok")
               /\ ps' = [IdleParser EXCEPT !.pc = "done"]
       IN Ended(ParseEnd(ps, call.text, FALSE))

NextNest == NestBegin \/ NestStep \/ NestEnd

SpecNest == InitParse /\ [][NextNest]_vars

\* the containers a text of SpecNest opens one inside the other
Opens(c) == c.opened + (IF c.inner = <<CH_LBRACE, CH_RBRACE>> THEN 1 ELSE 0)

AtContainer(p) ==
    p.pc = "value" /\ FirstByte(p) \in {CH_LBRACKET, CH_LBRACE}

\* C5: with L = CJSON_NESTING_LIMIT, a text that opens more than L nested
\* containers fails at the opening that would exceed L (the error position
\* is that bracket, L bytes in); L - 1 nested `[` followed by their `]`
\* parse; the depth counter never exceeds L and, at the entry to every
\* container, equals the number of enclosing containers still open.
C5_NestingCeiling ==
    /\ ps.depth <= CJSON_NESTING_LIMIT
    /\ AtContainer(ps) => ps.depth = Len(ps.stack)
    /\ (call.fn = "cjson_parse" /\ Opens(call) > CJSON_NESTING_LIMIT)
         => /\ call.out = "ok" /\ call.ret = 0
            /\ err = [json |-> call.text, position |-> CJSON_NESTING_LIMIT]
    /\ (call.fn = "cjson_parse" /\ call.inner = <<>> /\ call.closed = call.opened
           /\ call.opened \in 1..(CJSON_NESTING_LIMIT - 1))
         => /\ call.out = "ok" /\ call.ret # 0
            /\ TypeBits(heap[call.ret].item_type) = CJSON_ARRAY

\* the descent stands at the bracket that would be container L + 1, with
\* L containers open, and parse_array has just refused it
C5_CeilingReached ==
    /\ call.fn = "parse_value" /\ call.opened = CJSON_NESTING_LIMIT + 1
    /\ ps.pc = "ret" /\ ~ps.ok
    /\ ps.depth = CJSON_NESTING_LIMIT /\ Len(ps.stack) = CJSON_NESTING_LIMIT
    /\ ps.offset = CJSON_NESTING_LIMIT

(***************************** SpecRef: references and cjson_delete ********)
(* The caller builds trees by adding nodes that are not yet part of any    *)
(* tree, makes reference nodes to nodes it holds, and then releases what   *)
(* it holds with cjson_delete, one handle at a time.                       *)
(***************************************************************************)
MaxRefNodes == 4
MaxRefOps == 3

RefString == <<CH_a>>

\* the links cjson_delete follows from a node: next, and child unless the
\* node is a reference
OwnedLinks(h, n) ==
    ({h[n].next} \cup (IF IsReference(h[n].item_type) THEN {} ELSE {h[n].child}))
      \ {0}

RECURSIVE OwnedClosure(_, _, _)
OwnedClosure(h, frontier, acc) ==
    IF frontier \subseteq acc THEN acc
    ELSE OwnedClosure(h, UNION {OwnedLinks(h, n) : n \in frontier \ acc},
                      acc \cup frontier)

\* the nodes cjson_delete(root) walks over
OwnedReach(h, root) == OwnedClosure(h, {root}, {})

\* no tree holds the node yet
Unlinked(h, item) ==
    /\ h[item].next = 0
    /\ \A n \in 1..Len(h) :
          /\ h[n].next # item
          /\ h[n].child = item => IsReference(h[n].item_type)

Deleting == call.fn = "cjson_delete"

RefCreated(fn, node) ==
    /\ ~crashed /\ ~Deleting /\ Len(heap) < MaxRefNodes
    /\ heap' = Alloc(heap, node)
    /\ live' = live \cup {NewId(heap)}
    /\ call' = [fn |-> fn, seq |-> call.seq, ret |-> NewId(heap), out |-> "ok"]
    /\ UNCHANGED <<err, ps, crashed>>

RefCreateString == RefCreated("cjson_create_string", cjson_create_string(RefString))
RefCreateArray == RefCreated("cjson_create_array", cjson_create_array)
RefCreateObject == RefCreated("cjson_create_object", cjson_create_object)
CreateStringReference ==
    RefCreated("cjson_create_string_reference",
               cjson_create_string_reference(RefString))
CreateArrayReference ==
    \E child \in live :
       RefCreated("cjson_create_array_reference", cjson_create_array_reference(child))
CreateObjectReference ==
    \E child \in live :
       RefCreated("cjson_create_object_reference",
                  cjson_create_object_reference(child))

\* an add the function accepted (a refused one leaves the nodes as they
\* were)
RefApplied(fn, target, item, r) ==
    /\ call.seq < MaxRefOps /\ r.out = "ok" /\ r.ret
    /\ heap' = r.heap
    /\ call' = [fn |-> fn, seq |-> call.seq + 1, target |-> target, item |-> item,
                ret |-> r.ret, out |-> r.out]
    /\ crashed' = (r.out # "ok")
    /\ UNCHANGED <<err, ps, live>>

RefAddItemToArray ==
    /\ ~crashed /\ ~Deleting
    /\ \E array \in live, item \in live :
          /\ Unlinked(heap, item) /\ array \notin OwnedReach(heap, item)
          /\ RefApplied("cjson_add_item_to_array", array, item,
                        cjson_add_item_to_array(heap, array, item))

RefAddItemToObject ==
    /\ ~crashed /\ ~Deleting
    /\ \E object \in live, item \in live :
          /\ Unlinked(heap, item) /\ object \notin OwnedReach(heap, item)
          /\ RefApplied("cjson_add_item_to_object", object, item,
                        cjson_add_item_to_object(heap, object, RefString, item))

\* cjson_delete(Some(item)): the caller gives its handle away; `before` is
\* the arena as the call found it
Delete ==
    /\ ~crashed /\ call.seq < MaxRefOps
    /\ \E item \in live :
          LET Deleted(r) ==
                  /\ heap' = r.heap
                  /\ call' = [fn |-> "cjson_delete", seq |-> call.seq + 1,
                              item |-> item, before |-> heap, out |-> r.out]
                  /\ crashed' = (r.out # "ok")
                  /\ live' = live \ {item}
                  /\ UNCHANGED <<err, ps>>
          IN Deleted(cjson_delete(heap, item))

NextRef ==
    \/ RefCreateString \/ RefCreateArray \/ RefCreateObject
    \/ CreateStringReference \/ CreateArrayReference \/ CreateObjectReference
    \/ RefAddItemToArray \/ RefAddItemToObject
    \/ Delete

SpecRef == InitParse /\ [][NextRef]_vars

\* the reference nodes of the tree a cjson_delete call was given
DeletedReferences ==
    {r \in OwnedReach(call.before, call.item) : IsReference(call.before[r].item_type)}

\* a referenced node with everything below it
Referenced(h, x) == {x} \cup Descendants(h, x)

\* owned elsewhere: cjson_delete's own walk does not pass through it
OwnedElsewhere(r) ==
    /\ call.before[r].child # 0
    /\ Referenced(call.before, call.before[r].child)
         \cap OwnedReach(call.before, call.item) = {}

\* C10: cjson_delete of a tree that contains reference nodes returns, keeps
\* each reference node's link and string, and leaves every referenced node
\* that is owned elsewhere, with its whole subtree, exactly as it was (kinds,
\* values, keys, child chain), so that it prints the same text as before;
\* this holds for each delete of a run, so the owner and a second parent
\* referencing the same child can be deleted afterwards.
C10_DeleteSparesReferenced ==
    Deleting =>
      /\ call.out = "ok"
      /\ \A r \in DeletedReferences :
            /\ heap[r].child = call.before[r].child
            /\ heap[r].valuestring = call.before[r].valuestring
            /\ OwnedElsewhere(r) =>
                 /\ \A n \in Referenced(call.before, call.before[r].child) :
                       heap[n] = call.before[n]
                 /\ cjson_print(heap, call.before[r].child)
                      = cjson_print(call.before, call.before[r].child)

\* an array holding a reference to a non-empty container owned elsewhere has
\* been deleted
C10_TreeWithReferenceDeleted ==
    /\ Deleting /\ call.out = "ok"
    /\ TypeBits(call.before[call.item].item_type) = CJSON_ARRAY
    /\ ~IsReference(call.before[call.item].item_type)
    /\ \E r \in DeletedReferences \ {call.item} :
          /\ OwnedElsewhere(r)
          /\ ~IsReference(call.before[call.before[r].child].item_type)
          /\ call.before[call.before[r].child].child # 0
          /\ heap[call.before[call.before[r].child].child].valuestring = RefString

(***************************** SpecLink: linking nodes **********************)
(* A caller creates its nodes and then links them with the add functions,  *)
(* each call recorded with the arena it started from.  A run ends with the *)
(* first call that is refused (a refusal leaves the arena as it was), and  *)
(* refusals are looked at among the first MaxRefusedOps calls.             *)
(***************************************************************************)
MaxLinkNodes == 4
MaxLinkOps == 4
MaxRefusedOps == 2

LinkKeys == {<<>>, <<CH_a>>}

Refused == ~call.accepted

InitLink ==
    /\ heap = <<>> /\ live = {} /\ crashed = FALSE
    /\ err = NoError /\ ps = IdleParser
    /\ call = [fn |-> "none", seq |-> 0, accepted |-> TRUE]

LinkCreated(fn, node) ==
    /\ ~crashed /\ call.seq = 0 /\ Len(heap) < MaxLinkNodes
    /\ heap' = Alloc(heap, node)
    /\ live' = live \cup {NewId(heap)}
    /\ call' = [fn |-> fn, seq |-> call.seq, accepted |-> TRUE]
    /\ UNCHANGED <<err, ps, crashed>>

LinkCreateNull == LinkCreated("cjson_create_null", cjson_create_null)
LinkCreateArray == LinkCreated("cjson_create_array", cjson_create_array)
LinkCreateObject == LinkCreated("cjson_create_object", cjson_create_object)
LinkCreateArrayReference ==
    \E child \in live :
       LinkCreated("cjson_create_array_reference", cjson_create_array_reference(child))
LinkCreateObjectReference ==
    \E child \in live :
       LinkCreated("cjson_create_object_reference", cjson_create_object_reference(child))

\* r is [heap, ret, out]; accepted says whether r.ret reports success
LinkApplied(fn, target, item, key, r, accepted) ==
    /\ ~crashed /\ ~Refused /\ call.seq < MaxLinkOps
    /\ accepted \/ call.seq < MaxRefusedOps
    /\ heap' = r.heap
    /\ call' = [fn |-> fn, seq |-> call.seq + 1, target |-> target, item |-> item,
                key |-> key, out |-> r.out, accepted |-> accepted, ret |-> r.ret,
                before |-> heap]
    /\ crashed' = (r.out # "ok")
    /\ live' = live \cup (IF item = 0 /\ accepted THEN {r.ret} ELSE {})
    /\ UNCHANGED <<err, ps>>

LinkAddItemToArray ==
    \E array \in live, item \in live :
       LET Done(r) == LinkApplied("cjson_add_item_to_array", array, item, NoneStr,
                                  r, r.out = "ok" /\ r.ret)
       IN Done(cjson_add_item_to_array(heap, array, item))

LinkAddItemToObject ==
    \E object \in live, item \in live, key \in LinkKeys :
       LET Done(r) == LinkApplied("cjson_add_item_to_object", object, item, key,
                                  r, r.out = "ok" /\ r.ret)
       IN Done(cjson_add_item_to_object(heap, object, key, item))

\* the typed helpers: item = 0 in the record, ret is the new handle or 0
LinkAddNew(fn, object, name, r) ==
    /\ Len(heap) < MaxLinkNodes
    /\ LinkApplied(fn, object, 0, name, r, r.out = "ok" /\ r.ret # 0)

LinkAddTrueToObject ==
    \E object \in live, name \in LinkKeys :
       LinkAddNew("cjson_add_true_to_object", object, name,
                  cjson_add_true_to_object(heap, object, name))
LinkAddFalseToObject ==
    \E object \in live, name \in LinkKeys :
       LinkAddNew("cjson_add_false_to_object", object, name,
                  cjson_add_false_to_object(heap, object, name))
LinkAddNumberToObject ==
    \E object \in live, name \in LinkKeys, number \in TreeNumbers :
       LinkAddNew("cjson_add_number_to_object", object, name,
                  cjson_add_number_to_object(heap, object, name, number))
LinkAddStringToObject ==
    \E object \in live, name \in LinkKeys :
       LinkAddNew("cjson_add_string_to_object", object, name,
                  cjson_add_string_to_object(heap, object, name, RefString))

NextLink ==
    \/ LinkCreateNull \/ LinkCreateArray \/ LinkCreateObject
    \/ LinkCreateArrayReference \/ LinkCreateObjectReference
    \/ LinkAddItemToArray \/ LinkAddItemToObject
    \/ LinkAddTrueToObject \/ LinkAddFalseToObject
    \/ LinkAddNumberToObject \/ LinkAddStringToObject

SpecLink == InitLink /\ [][NextLink]_vars

(***************************** claims over SpecLink *************************)

\* the kind of a node is the low byte of item_type, the flags lie above it
ArrayKind(h, n) == TypeBits(h[n].item_type) = CJSON_ARRAY
ObjectKind(h, n) == TypeBits(h[n].item_type) = CJSON_OBJECT

\* C13: cjson_add_item_to_array returns false exactly when the target is
\* not of Array kind or the item is the target itself, and a false return
\* leaves every node as it was.
C13_ArrayAddRefusedExactly ==
    call.fn = "cjson_add_item_to_array"
    => /\ (call.out = "ok" /\ ~call.ret)
            <=> (~ArrayKind(call.before, call.target) \/ call.item = call.target)
       /\ (call.out = "ok" /\ ~call.ret) => heap = call.before

\* the child chain of n as the size loop walks it, cut where it comes back
\* to a node it has passed
RECURSIVE Walked(_, _, _)
Walked(h, c, seen) ==
    IF c = 0 \/ c \in seen THEN <<>>
    ELSE <<c>> \o Walked(h, h[c].next, seen \cup {c})

Kids(h, n) == Walked(h, h[n].child, {})

IsKid(h, n, x) == \E i \in DOMAIN Kids(h, n) : Kids(h, n)[i] = x

GrownByOne(before, after) ==
    /\ before.out = "ok" /\ after.out = "ok"
    /\ after.ret = before.ret + 1

\* C14: after cjson_add_item_to_array has returned true for an item that was
\* not already among the array's children (a fresh node or one linked
\* elsewhere), the item is the last node of the array's child chain, the
\* children present before are the same nodes in the same order in front of
\* it, and cjson_get_array_size of the array is one more than before.
C14_AppendedAtTail ==
    (call.fn = "cjson_add_item_to_array" /\ call.out = "ok" /\ call.ret
        /\ ~IsKid(call.before, call.target, call.item)
        /\ cjson_get_array_size(call.before, call.target).out = "ok")
    => /\ Kids(heap, call.target) = Append(Kids(call.before, call.target), call.item)
       /\ heap[call.item].next = 0
       /\ GrownByOne(cjson_get_array_size(call.before, call.target),
                     cjson_get_array_size(heap, call.target))

ObjectAdds ==
    {"cjson_add_item_to_object", "cjson_add_true_to_object",
     "cjson_add_false_to_object", "cjson_add_number_to_object",
     "cjson_add_string_to_object"}

\* the call returned and reported failure: false, or None from a typed helper
AddFailed == call.out = "ok" /\ ~call.accepted

\* C15: an add to an object fails exactly when the target is not of Object
\* kind, the key is empty, or the item is the target itself; a failed add
\* leaves every node that existed as it was, and a failed typed helper
\* returns None.
C15_ObjectAddRefusedExactly ==
    call.fn \in ObjectAdds
    => /\ AddFailed <=> \/ ~ObjectKind(call.before, call.target)
                        \/ call.key = <<>>
                        \/ call.item = call.target
       /\ AddFailed => SubSeq(heap, 1, Len(call.before)) = call.before
       /\ (AddFailed /\ call.item = 0) => call.ret = 0

\* the node an add has linked: the given item, or the helper's new node
AddedItem == IF call.item = 0 THEN call.ret ELSE call.item

\* C16: after a successful add to an object of an item that was not already
\* one of its members, the members present before are the same nodes with the
\* same keys in the same order, and the item, carrying the key, is the one
\* new member, at the end.
C16_MemberAppended ==
    (call.fn \in ObjectAdds /\ call.out = "ok" /\ call.accepted
        /\ ~IsKid(call.before, call.target, call.item)
        /\ cjson_get_array_size(call.before, call.target).out = "ok")
    => /\ Kids(heap, call.target) = Append(Kids(call.before, call.target), AddedItem)
       /\ heap[AddedItem].string = call.key
       /\ heap[AddedItem].next = 0
       /\ \A i \in DOMAIN Kids(call.before, call.target) :
             heap[Kids(call.before, call.target)[i]].string
                = call.before[Kids(call.before, call.target)[i]].string
       /\ GrownByOne(cjson_get_array_size(call.before, call.target),
                     cjson_get_array_size(heap, call.target))

(***************************************************************************)
(* Invariants of the trees the program builds.  A tree counts once the     *)
(* call that produced it has returned: a parse call that failed or         *)
(* panicked leaves no tree.                                                *)
(***************************************************************************)
TreesStand == IsParseCall => CallSucceeded

\* C22: the first child of every non-empty container that owns its children
\* has prev equal to the container's last child, a single child included
\* (head.prev == tail).
C22_BackEdge ==
    TreesStand
    => \A n \in DOMAIN heap :
          (heap[n].child # 0 /\ ~IsReference(heap[n].item_type))
          => heap[heap[n].child].prev = Kids(heap, n)[Len(Kids(heap, n))]

\* C23: no node is reachable from itself by following next: the walk from
\* any node ends in a node whose next is empty.
C23_NextAcyclic ==
    TreesStand
    => \A n \in DOMAIN heap :
          heap[Walked(heap, n, {})[Len(Walked(heap, n, {}))]].next = 0

\* C24: every child of an Object-kind node carries a non-empty key, and no
\* child of an Array-kind node carries a key.
C24_KeysFollowKind ==
    TreesStand
    => \A n \in DOMAIN heap :
          \A i \in DOMAIN Kids(heap, n) :
             /\ ObjectKind(heap, n)
                => heap[Kids(heap, n)[i]].string \notin {NoneStr, <<>>}
             /\ ArrayKind(heap, n) => heap[Kids(heap, n)[i]].string = NoneStr

(***************************************************************************)
(* Claims about the text a parse call consumes.  The texts meant here hold *)
(* no string literal, so that every bracket in them is structure.          *)
(***************************************************************************)
NoQuotes(t) == \A i \in DOMAIN t : t[i] \notin {CH_QUOTE, CH_BACKSLASH}

\* the number of brackets of t that are open at its end
RECURSIVE BracketDepth(_)
BracketDepth(t) ==
    IF t = <<>> THEN 0
    ELSE BracketDepth(SubSeq(t, 1, Len(t) - 1))
         + (IF t[Len(t)] = CH_LBRACKET THEN 1
            ELSE IF t[Len(t)] = CH_RBRACKET THEN -1 ELSE 0)

\* t opens an array that is still open after each of its first n bytes
OpenThrough(t, n) ==
    /\ t # <<>> /\ t[1] = CH_LBRACKET /\ NoQuotes(t)
    /\ \A k \in 1..n : BracketDepth(SubSeq(t, 1, k)) > 0

\* t is one array from its first byte to its last
WholeArray(t) == OpenThrough(t, Len(t) - 1) /\ BracketDepth(t) = 0

\* the comma-separated elements of the array t
Elements(t) ==
    IF \A i \in 2..(Len(t) - 1) : IsAsciiWhitespace(t[i]) THEN 0
    ELSE 1 + Cardinality({i \in 2..(Len(t) - 1) :
                             t[i] = CH_COMMA /\ BracketDepth(SubSeq(t, 1, i)) = 1})

\* C25: a successful parse of an array consumes its closing bracket, also
\* after an element that is itself an empty array: the child chain has one
\* node per comma-separated element, and a text whose outer array is never
\* closed does not parse.
C25_ClosingBracketConsumed ==
    call.fn = "cjson_parse"
    => /\ (CallSucceeded /\ WholeArray(call.text))
          => /\ call.offset = Len(call.text)
             /\ Len(Kids(heap, call.ret)) = Elements(call.text)
       /\ OpenThrough(call.text, Len(call.text)) => ~CallSucceeded

(***************************************************************************)
(* Claims about string literals.  A body is the bytes between the two      *)
(* quotes of a literal; a simple body holds no bare quote and no escape    *)
(* but \" \\ \/ \b \f \n \r \t.                                            *)
(***************************************************************************)
\* the byte a simple escape stands for, -1 for any other escape
SimpleEscape(c) ==
    IF c = CH_b THEN CH_BS
    ELSE IF c = CH_f THEN CH_FF
    ELSE IF c = CH_n THEN CH_LF
    ELSE IF c = CH_r THEN CH_CR
    ELSE IF c = CH_t THEN CH_TAB
    ELSE IF c \in {CH_QUOTE, CH_BACKSLASH, CH_SLASH} THEN c
    ELSE -1

RECURSIVE SimpleBody(_)
SimpleBody(b) ==
    IF b = <<>> THEN TRUE
    ELSE IF b[1] = CH_BACKSLASH
    THEN Len(b) >= 2 /\ SimpleEscape(b[2]) >= 0 /\ SimpleBody(SliceFrom(b, 2))
    ELSE b[1] # CH_QUOTE /\ SimpleBody(Tail(b))

\* the bytes a simple body stands for
RECURSIVE DecodedBody(_)
DecodedBody(b) ==
    IF b = <<>> THEN <<>>
    ELSE IF b[1] = CH_BACKSLASH
    THEN <<SimpleEscape(b[2])>> \o DecodedBody(SliceFrom(b, 2))
    ELSE <<b[1]>> \o DecodedBody(Tail(b))

\* the index of the first quote of t after index i, 0 when there is none
RECURSIVE NextQuote(_, _)
NextQuote(t, i) ==
    IF i >= Len(t) THEN 0
    ELSE IF t[i + 1] = CH_QUOTE THEN i + 1
    ELSE NextQuote(t, i + 1)

\* the text opens an object whose first member has a key literal without
\* escapes; FirstKey is the body of that literal
KeyOpens(t) == AfterWhitespace(t, 1) + 1
HasFirstKey(t) ==
    /\ t # <<>> /\ t[1] = CH_LBRACE
    /\ KeyOpens(t) <= Len(t) /\ t[KeyOpens(t)] = CH_QUOTE
    /\ NextQuote(t, KeyOpens(t)) # 0
    /\ NoQuotes(SubSeq(t, KeyOpens(t) + 1, NextQuote(t, KeyOpens(t)) - 1))
FirstKey(t) == SubSeq(t, KeyOpens(t) + 1, NextQuote(t, KeyOpens(t)) - 1)

\* C26: an input whose first member has the key literal "" does not parse,
\* and in a successfully parsed object the first member's key is the text
\* of its key literal.
C26_KeyIsItsLiteral ==
    (call.fn = "cjson_parse" /\ HasFirstKey(call.text))
    => /\ FirstKey(call.text) = <<>> => ~CallSucceeded
       /\ (CallSucceeded /\ heap[call.ret].child # 0)
          => heap[heap[call.ret].child].string = FirstKey(call.text)

\* C27: for a text that is one string literal with a simple body, the parse
\* gives a String node whose value is the bytes the body stands for (each
\* simple escape its one mapped byte), and the offset ends just after the
\* closing quote.
C27_StringLiteralDecoded ==
    (/\ call.fn = "cjson_parse"
     /\ Len(call.text) >= 2
     /\ call.text[1] = CH_QUOTE /\ call.text[Len(call.text)] = CH_QUOTE
     /\ SimpleBody(SubSeq(call.text, 2, Len(call.text) - 1)))
    => /\ CallSucceeded
       /\ heap[call.ret].item_type = CJSON_STRING
       /\ heap[call.ret].valuestring
             = DecodedBody(SubSeq(call.text, 2, Len(call.text) - 1))
       /\ call.offset = Len(call.text)

\* the UTF-8 byte-order mark EF BB BF
UTF8_BOM == <<239, 187, 191>>

\* C28: for every text that parses, the byte-order mark followed by the text
\* parses to a structurally equal tree; a mark that is not at offset 0 is
\* not skipped (the text behind it is not parsed).
C28_BomSkipped ==
    LET SameTree(r) ==
            /\ r.out = "ok" /\ r.ret # 0
            /\ Shape(r.heap, r.ret) = Shape(heap, call.ret)
        NoTree(r) == r.out = "ok" /\ r.ret = 0
    IN (call.fn = "cjson_parse" /\ CallSucceeded)
       => /\ SameTree(cjson_parse(<<>>, err, UTF8_BOM \o call.text))
          /\ NoTree(cjson_parse(<<>>, err, <<CH_SPACE>> \o UTF8_BOM \o call.text))

\* C29: on a tree built with the constructors and the add functions, every
\* tree operation runs to completion: no add has failed to return, and
\* cjson_get_array_size, cjson_print, cjson_print_preallocated and
\* cjson_delete would each return on every node.
C29_OperationsComplete ==
    /\ "out" \in DOMAIN call => call.out # "diverge"
    /\ \A n \in DOMAIN heap :
          /\ cjson_get_array_size(heap, n).out # "diverge"
          /\ cjson_print(heap, n).out # "diverge"
          /\ cjson_print_preallocated(heap, n, [chars |-> <<>>, cap |-> 0], 0).out
                # "diverge"
          /\ cjson_delete(heap, n).out # "diverge"

\* C30: cjson_print of an array or object returns None exactly when the
\* rendering of one of its children fails, at every level of the printed
\* tree: a child that fails to render is never left out of a returned text.
C30_RenderFailurePropagates ==
    call.fn = "cjson_print"
    => \A n \in {call.item} \cup Descendants(heap, call.item) :
          LET Printed(pr) ==
                  (IsContainer(heap, n) /\ pr.out # "diverge")
                  => (pr.out = "none"
                        <=> \E i \in DOMAIN Kids(heap, n) :
                               cjson_print(heap, Kids(heap, n)[i]).out = "none")
          IN Printed(cjson_print(heap, n))

====
